---- MODULE Spec2Model ----
(***************************************************************************)
(* slam_stage: the scene tick (sim/src/scene/mod.rs), the per-agent sensor *)
(* scheduler (sim/src/scene/scene_loop.rs) and the sensing jobs it spawns  *)
(* (sim/src/sensors/lidar.rs).                                             *)
(*                                                                         *)
(* Option<T> is a sequence: <<>> is None and <<x>> is Some(x).  A flume    *)
(* channel is the record [queue, senders, receivers]; a Receiver is the id *)
(* of its channel, which is also the id <<agent, serial>> of the job that  *)
(* holds the Sender.                                                       *)
(* Positions are integer world coordinates <<x, y>>; agents drive straight *)
(* along +Y (beta = 0, torque = 0), so heading and velocity are constant.  *)
(* Agent2DConfig is passed along but never read by Lidar2D::sense and is   *)
(* left out; so are the lidar's directions, which no tick changes.  A      *)
(* reading is [time, state], its state identified by the position the rays *)
(* were cast from.                                                         *)
(* rayon runs every spawned closure on some pool thread: a job and a       *)
(* per-agent closure of a tick are each a sequence of steps that interleave*)
(* freely with the steps of the others.                                    *)
(***************************************************************************)
EXTENDS Integers, Sequences, FiniteSets, TLC

VARIABLES
    time,      \* Scene2D.time
    tickNo,    \* number of Scene2D::update calls begun
    agents,    \* Scene2D.agents: AgentId -> Agent2D
    workers,   \* Scene2DLoop.workers: AgentId -> SensorWorker (worker, last_measurement)
    jobs,      \* the closures given to rayon::spawn, by job id <<agent, serial>>
    chans,     \* the flume channels, by job id
    tick,      \* Scene2D::update in progress: [active, dt, state]
    pcs,       \* position of the par_iter_mut closure of each agent in the tick
    callers,   \* direct callers of Scene2DLoop::update_state on the shared scheduler
    spawnLog,  \* history: what the scene held when each job was spawned
    fp,        \* a call of OccupancyMap::from_pixels: its locals, its position, its result
    bvh,       \* a call of BVH::new: its locals, its position, the BVH it returns
    ray        \* a ray query on a map or a box, with what it returned

vars == <<time, tickNo, agents, workers, jobs, chans, tick, pcs, callers, spawnLog,
          fp, bvh, ray>>

\* ------------------------------------------------------------------ bounds
MaxTicks == 3
MaxAgents == 1
MaxCalls == 2

\* the time delta a tick is given; the velocity and the start position of an
\* agent: at rest in a free cell, or driving up through the occupied cell (1, 1)
\* and, in the fourth tick, out of the grid
Dts == {1}
AnyDts == {0, 1}
Velocities == {0, 1}
StartPositions == {<<0, -1>>}
Callers == {1, 2}
\* the agent positions a direct caller passes: a free cell, an occupied cell
CallPositions == {<<0, 0>>, <<0, 1>>}

None == <<>>
Some(x) == <<x>>

\* ------------------------------------------------------------- the map
\* a 2 x 4 grid whose cell (1, 1) is occupied
GridW == 2
GridH == 4
Pixels == [k \in 0 .. (GridW * GridH - 1) |-> k = 3]

\* OccupancyMap::translate: floor((origin_corner - loc) * FLIP_HORIZONTAL) with
\* origin_corner = (-w/2, h/2): the cell (x + w/2, h/2 - y)
Translate(loc) == <<loc[1] + GridW \div 2, GridH \div 2 - loc[2]>>

\* OccupancyMap::is_valid (on the unsigned cell)
IsValid(cell) == cell[1] < GridW /\ cell[2] < GridH

\* OccupancyMap::is_occupied: out of the grid counts as occupied
IsOccupied(cell) == IF IsValid(cell) THEN Pixels[cell[1] + cell[2] * GridW] ELSE TRUE

\* ------------------------------------------------------------- sensing
\* Lidar2D::sense with the time stamp wrong by one (a mutant of Sense)
SenseStampedAhead(agent_state, scene) ==
    LET loc == Translate(agent_state.position)
    IN  IF loc[1] < 0 \/ loc[2] < 0 \/ IsOccupied(loc)
        THEN None
        ELSE Some([time |-> scene.time + 1, state |-> agent_state.position])

\* Lidar2D::sense: no reading in an occupied or negative cell, else the hit
\* points of the rays cast from agent_state.position (the reading's state is
\* identified by the position the rays were cast from), stamped scene.time
Sense(agent_state, scene) ==
    LET loc == Translate(agent_state.position)
    IN  IF loc[1] < 0 \/ loc[2] < 0 \/ IsOccupied(loc)
        THEN None
        ELSE Some([time |-> scene.time, state |-> agent_state.position])

\* flume::Receiver::try_recv on channel c
TryRecv(c) ==
    IF chans[c].queue # <<>> THEN "Ok"
    ELSE IF chans[c].senders > 0 THEN "Empty"
    ELSE "Disconnected"

\* Scene2D::state
SceneState == [time |-> time]

\* Agent2D::update with beta = 0 and torque = 0
AgentUpdated(agent, dt) ==
    [state |-> [position |-> <<agent.state.position[1],
                               agent.state.position[2] + agent.state.velocity * dt>>,
                velocity |-> agent.state.velocity],
     last_state |-> Some(agent.state)]

\* a thread that is not inside Scene2DLoop::update_state and has made n calls
IdleCaller(n) ==
    [pc |-> "idle", calls |-> n, agent |-> 0, state |-> [position |-> <<0, 0>>, velocity |-> 0],
     scene |-> [time |-> 0], measurement |-> None, rcv |-> None]

\* no call of from_pixels, of BVH::new or of a ray query is in progress
NoCall == [pc |-> "idle"]

\* ------------------------------------------------------------- Init
SceneInit ==
    /\ time = 0
    /\ tickNo = 0
    /\ agents = <<>>
    /\ workers = <<>>
    /\ jobs = <<>>
    /\ chans = <<>>
    /\ tick = [active |-> FALSE, dt |-> 0, state |-> [time |-> 0]]
    /\ pcs = <<>>
    /\ callers = [c \in Callers |-> IdleCaller(0)]
    /\ spawnLog = <<>>

Init ==
    /\ SceneInit
    /\ fp = NoCall
    /\ bvh = NoCall
    /\ ray = NoCall

\* ------------------------------------------------------------- scheduler
\* Scene2DLoop::insert_agent registering nothing (a mutant of InsertAgent)
InsertAgentNever(agent_id) == workers

\* Scene2DLoop::insert_agent: a fresh SensorWorker unless the id has one
InsertAgent(agent_id) ==
    IF agent_id \in DOMAIN workers
    THEN workers
    ELSE workers @@ (agent_id :> [worker |-> None, last_measurement |-> None])

\* Scene2DLoop::query / AgentWorker::query: the cached reading
Query(a) == IF a \in DOMAIN workers THEN Some([lidar |-> workers[a].last_measurement]) ELSE None

\* the closure and the channel of update_state's lines 99-106, and the history record
NewJob(a, agent_state, scene_state) ==
    [agent |-> a, state |-> agent_state, scene |-> scene_state,
     stage |-> "running", measurement |-> None]

NewChan == [queue |-> <<>>, senders |-> 1, receivers |-> 1]

SpawnRecord(a, last) ==
    [tickNo |-> tickNo, time |-> time, state |-> agents[a].state, last |-> last]

\* the id of the job update_state spawns next for agent a
NextJob(a) == <<a, Cardinality({j \in DOMAIN jobs : j[1] = a}) + 1>>

\* dropping the Receiver of channel c (Option::replace drops the old value)
DropReceiver(ch, old) ==
    IF old = None THEN ch ELSE [ch EXCEPT ![old[1]].receivers = 0]

\* lines 87-88: what the poll of the stored Receiver reports ("Never": no job yet)
Rcvd(a) ==
    IF workers[a].worker = None THEN "Never" ELSE TryRecv(workers[a].worker[1])

\* lines 94-95: the cached reading after the poll
Polled(a) ==
    IF Rcvd(a) = "Ok"
    THEN Some(Head(chans[workers[a].worker[1]].queue))
    ELSE workers[a].last_measurement

\* try_recv takes the reading out of the channel
Taken(a) ==
    IF Rcvd(a) = "Ok"
    THEN [chans EXCEPT ![workers[a].worker[1]].queue = Tail(@)]
    ELSE chans

\* lines 99-108: spawn a job on a new channel and store its Receiver
Respawn(a, agent_state, scene_state, last, ch) ==
    /\ jobs' = jobs @@ (NextJob(a) :> NewJob(a, agent_state, scene_state))
    /\ chans' = DropReceiver(ch, workers[a].worker) @@ (NextJob(a) :> NewChan)
    /\ workers' = [workers EXCEPT
                     ![a] = [worker |-> Some(NextJob(a)), last_measurement |-> last]]
    /\ spawnLog' = spawnLog @@ (NextJob(a) :> SpawnRecord(a, last))

\* update_state without the early return on Empty (a mutant of UpdateState)
UpdateStateNoGuard(a, agent_state, scene_state) ==
    Respawn(a, agent_state, scene_state, Polled(a), Taken(a))

\* update_state that forgets the cached reading on Empty (a mutant of UpdateState)
UpdateStateDropsCache(a, agent_state, scene_state) ==
    IF Rcvd(a) = "Empty"
    THEN /\ workers' = [workers EXCEPT ![a].last_measurement = None]
         /\ UNCHANGED <<jobs, chans, spawnLog>>
    ELSE Respawn(a, agent_state, scene_state, Polled(a), Taken(a))

\* update_state that does not cache the reading it received (a mutant of UpdateState)
UpdateStateKeepsStale(a, agent_state, scene_state) ==
    IF Rcvd(a) = "Empty"
    THEN UNCHANGED <<workers, jobs, chans, spawnLog>>
    ELSE Respawn(a, agent_state, scene_state, workers[a].last_measurement, Taken(a))

\* update_state that starts nothing for a fresh worker (a mutant of UpdateState)
UpdateStateIdleFresh(a, agent_state, scene_state) ==
    IF Rcvd(a) \in {"Empty", "Never"}
    THEN UNCHANGED <<workers, jobs, chans, spawnLog>>
    ELSE Respawn(a, agent_state, scene_state, Polled(a), Taken(a))

\* update_state that forgets the cached reading when the job sent none (a mutant)
UpdateStateClearsOnDisconnect(a, agent_state, scene_state) ==
    IF Rcvd(a) = "Empty"
    THEN UNCHANGED <<workers, jobs, chans, spawnLog>>
    ELSE Respawn(a, agent_state, scene_state,
                 IF Rcvd(a) = "Disconnected" THEN None ELSE Polled(a), Taken(a))

\* update_state with a blocking recv in place of try_recv (a mutant of UpdateState)
UpdateStateBlocking(a, agent_state, scene_state) ==
    /\ Rcvd(a) # "Empty"
    /\ Respawn(a, agent_state, scene_state, Polled(a), Taken(a))

\* update_state that takes a closed channel for "not ready" (a mutant of UpdateState)
UpdateStateIdleOnClosed(a, agent_state, scene_state) ==
    IF Rcvd(a) \in {"Empty", "Disconnected"}
    THEN UNCHANGED <<workers, jobs, chans, spawnLog>>
    ELSE Respawn(a, agent_state, scene_state, Polled(a), Taken(a))

\* SensorWorker::update_state, called by one caller at a time
UpdateState(a, agent_state, scene_state) ==
    IF Rcvd(a) = "Empty"
    THEN UNCHANGED <<workers, jobs, chans, spawnLog>>
    ELSE Respawn(a, agent_state, scene_state, Polled(a), Taken(a))

\* ------------------------------------------------------------- the jobs
\* the job sensing what the scene holds now, not what it captured (a mutant of JobSense)
JobSenseLive(j) ==
    /\ jobs[j].stage = "running"
    /\ jobs' = [jobs EXCEPT ![j].stage = "sensed",
                            ![j].measurement = Sense(agents[j[1]].state, SceneState)]
    /\ UNCHANGED <<time, tickNo, agents, workers, chans, tick, pcs, callers, spawnLog, fp, bvh, ray>>

\* line 102: lidar.read().sense(config, state, scene_state) on the captured values
JobSense(j) ==
    /\ jobs[j].stage = "running"
    /\ jobs' = [jobs EXCEPT ![j].stage = "sensed",
                            ![j].measurement = Sense(jobs[j].state, jobs[j].scene)]
    /\ UNCHANGED <<time, tickNo, agents, workers, chans, tick, pcs, callers, spawnLog, fp, bvh, ray>>

\* lines 103-105: a reading is sent; send fails, ignored, when the Receiver is gone
JobSend(j) ==
    /\ jobs[j].stage = "sensed"
    /\ jobs[j].measurement # None
    /\ jobs' = [jobs EXCEPT ![j].stage = "sent"]
    /\ chans' = IF chans[j].receivers > 0
                THEN [chans EXCEPT ![j].queue = Append(@, jobs[j].measurement[1])]
                ELSE chans
    /\ UNCHANGED <<time, tickNo, agents, workers, tick, pcs, callers, spawnLog, fp, bvh, ray>>

\* line 106: the closure ends and its Sender is dropped
JobExit(j) ==
    /\ \/ jobs[j].stage = "sent"
       \/ jobs[j].stage = "sensed" /\ jobs[j].measurement = None
    /\ jobs' = [jobs EXCEPT ![j].stage = "exited"]
    /\ chans' = [chans EXCEPT ![j].senders = 0]
    /\ UNCHANGED <<time, tickNo, agents, workers, tick, pcs, callers, spawnLog, fp, bvh, ray>>

\* ------------------------------------------------------------- the scene
\* Scene2D::add_agent
AddAgent(position, velocity) ==
    LET id == Cardinality(DOMAIN agents)
        agent == [state |-> [position |-> position, velocity |-> velocity],
                  last_state |-> None]
    IN  /\ ~tick.active
        /\ \A c \in Callers : callers[c].pc = "idle"
        /\ id < MaxAgents
        /\ workers' = InsertAgent(id)
        /\ agents' = (id :> agent) @@ agents
        /\ pcs' = (id :> "idle") @@ pcs
        /\ UNCHANGED <<time, tickNo, jobs, chans, tick, callers, spawnLog, fp, bvh, ray>>

\* Scene2D::update, lines 72-74: the time advances, then the snapshot is taken,
\* then the per-agent closures are handed to the pool
TickBegin(dt) ==
    /\ ~tick.active
    /\ \A c \in Callers : callers[c].pc = "idle"
    /\ tickNo < MaxTicks
    /\ time' = time + dt
    /\ tickNo' = tickNo + 1
    /\ tick' = [active |-> TRUE, dt |-> dt, state |-> [time |-> time + dt]]
    /\ pcs' = [a \in DOMAIN agents |-> "update"]
    /\ UNCHANGED <<agents, workers, jobs, chans, callers, spawnLog, fp, bvh, ray>>

\* line 77: agent.update(dt) in the closure of agent a
AgentUpdate(a) ==
    /\ tick.active
    /\ pcs[a] = "update"
    /\ agents' = [agents EXCEPT ![a] = AgentUpdated(@, tick.dt)]
    /\ pcs' = [pcs EXCEPT ![a] = "poll"]
    /\ UNCHANGED <<time, tickNo, workers, jobs, chans, tick, callers, spawnLog, fp, bvh, ray>>

\* the closure polling before it has moved its agent (a mutant of Poll)
PollBeforeUpdate(a) ==
    /\ tick.active
    /\ pcs[a] = "update"
    /\ UpdateState(a, agents[a].state, tick.state)
    /\ UNCHANGED <<time, tickNo, agents, tick, pcs, callers, fp, bvh, ray>>

\* line 78: scene_loop.update_state(*id, agent.config, agent.state, state.clone())
Poll(a) ==
    /\ tick.active
    /\ pcs[a] = "poll"
    /\ UpdateState(a, agents[a].state, tick.state)
    /\ pcs' = [pcs EXCEPT ![a] = "done"]
    /\ UNCHANGED <<time, tickNo, agents, tick, callers, fp, bvh, ray>>

\* line 79: for_each_init returns when every closure has run
TickEnd ==
    /\ tick.active
    /\ \A a \in DOMAIN pcs : pcs[a] = "done"
    /\ tick' = [tick EXCEPT !.active = FALSE]
    /\ pcs' = [a \in DOMAIN pcs |-> "idle"]
    /\ UNCHANGED <<time, tickNo, agents, workers, jobs, chans, callers, spawnLog, fp, bvh, ray>>

\* the steps of the tick's closures and of the jobs
Steps ==
    \/ \E a \in DOMAIN agents : AgentUpdate(a)
    \/ \E a \in DOMAIN agents : Poll(a)
    \/ TickEnd
    \/ \E j \in DOMAIN jobs : JobSense(j)
    \/ \E j \in DOMAIN jobs : JobSend(j)
    \/ \E j \in DOMAIN jobs : JobExit(j)

Next ==
    \/ \E p \in StartPositions, v \in Velocities : AddAgent(p, v)
    \/ \E dt \in Dts : TickBegin(dt)
    \/ Steps

\* the scene with ticks that may be given a zero time delta, every agent driving
NextAnyDt ==
    \/ \E p \in StartPositions : AddAgent(p, 1)
    \/ \E dt \in AnyDts : TickBegin(dt)
    \/ Steps

SpecAnyDt == Init /\ [][NextAnyDt]_vars

Spec == Init /\ [][Next]_vars

\* the tick's closures are run by the pool; nothing makes a sensing job finish
TickStep ==
    \/ \E a \in DOMAIN agents : AgentUpdate(a)
    \/ \E a \in DOMAIN agents : Poll(a)
    \/ TickEnd

SpecTicksFair == Init /\ [][Next]_vars /\ WF_vars(TickStep)

\* the steps of the sensing jobs, and the start of a tick
JobStep ==
    \/ \E j \in DOMAIN jobs : JobSense(j)
    \/ \E j \in DOMAIN jobs : JobSend(j)
    \/ \E j \in DOMAIN jobs : JobExit(j)

TickStart == \E dt \in Dts : TickBegin(dt)

\* ticks keep occurring (while the bound allows), the pool runs the tick's
\* closures, and every started sensing job finishes
SpecLive ==
    Init /\ [][Next]_vars /\ WF_vars(TickStart) /\ WF_vars(TickStep) /\ WF_vars(JobStep)

\* ------------------------------------------------- a scene of several agents
\* the agents added to one scene and the ticks run on it
MaxIds == 3
IdTicks == 1

\* Scene2D::add_agent on a scene of up to MaxIds agents; the id returned is
\* the key the agent is inserted under
AddAgentMany(position, velocity) ==
    LET id == Cardinality(DOMAIN agents)
        agent == [state |-> [position |-> position, velocity |-> velocity],
                  last_state |-> None]
    IN  /\ ~tick.active
        /\ id < MaxIds
        /\ workers' = InsertAgent(id)
        /\ agents' = (id :> agent) @@ agents
        /\ pcs' = (id :> "idle") @@ pcs
        /\ UNCHANGED <<time, tickNo, jobs, chans, tick, callers, spawnLog, fp, bvh, ray>>

\* Scene2D::update on that scene, IdTicks times at most
UpdateMany(dt) ==
    /\ tickNo < IdTicks
    /\ TickBegin(dt)

NextIds ==
    \/ \E p \in StartPositions : AddAgentMany(p, 1)
    \/ \E dt \in Dts : UpdateMany(dt)
    \/ Steps

SpecIds == Init /\ [][NextIds]_vars

\* ------------------------------------------------- concurrent callers
\* Scene2DLoop::update_state(agent, config, state, scene_state) is public and takes
\* &self on a scheduler shared by Arc (Scene2D::clone shares scene_loop): thread c
\* enters it for a registered agent
ConcCall(c, a, position) ==
    /\ ~tick.active
    /\ callers[c].pc = "idle"
    /\ callers[c].calls < MaxCalls
    /\ a \in DOMAIN workers
    /\ callers' = [callers EXCEPT ![c] =
                     [pc |-> "poll", calls |-> callers[c].calls + 1, agent |-> a,
                      state |-> [position |-> position, velocity |-> 0],
                      scene |-> SceneState, measurement |-> None, rcv |-> None]]
    /\ UNCHANGED <<time, tickNo, agents, workers, jobs, chans, tick, pcs, spawnLog, fp, bvh, ray>>

\* lines 87-93: under worker.read(), try_recv; return on Empty
ConcPoll(c) ==
    LET a == callers[c].agent
    IN  /\ callers[c].pc = "poll"
        /\ chans' = Taken(a)
        /\ callers' = [callers EXCEPT ![c] =
                         IF Rcvd(a) = "Empty" THEN IdleCaller(callers[c].calls)
                         ELSE IF Rcvd(a) = "Ok"
                              THEN [@ EXCEPT !.pc = "cache", !.measurement = Polled(a)]
                              ELSE [@ EXCEPT !.pc = "spawn"]]
        /\ UNCHANGED <<time, tickNo, agents, workers, jobs, tick, pcs, spawnLog, fp, bvh, ray>>

\* line 95: last_measurement.write().replace(measurement); the read guard on
\* worker is dropped at line 97
ConcCache(c) ==
    /\ callers[c].pc = "cache"
    /\ workers' = [workers EXCEPT
                     ![callers[c].agent].last_measurement = callers[c].measurement]
    /\ callers' = [callers EXCEPT ![c].pc = "spawn"]
    /\ UNCHANGED <<time, tickNo, agents, jobs, chans, tick, pcs, spawnLog, fp, bvh, ray>>

\* lines 99-106: the channel is made and the job is handed to the pool
ConcSpawn(c) ==
    LET a == callers[c].agent
    IN  /\ callers[c].pc = "spawn"
        /\ jobs' = jobs @@ (NextJob(a) :> NewJob(a, callers[c].state, callers[c].scene))
        /\ chans' = chans @@ (NextJob(a) :> NewChan)
        /\ spawnLog' = spawnLog @@
                         (NextJob(a) :> SpawnRecord(a, workers[a].last_measurement))
        /\ callers' = [callers EXCEPT ![c].pc = "store", ![c].rcv = Some(NextJob(a))]
        /\ UNCHANGED <<time, tickNo, agents, workers, tick, pcs, fp, bvh, ray>>

\* line 108: worker.write().replace(rcv) waits for the readers of worker to leave
ConcStore(c) ==
    LET a == callers[c].agent
    IN  /\ callers[c].pc = "store"
        /\ \A d \in Callers \ {c} : ~(callers[d].pc = "cache" /\ callers[d].agent = a)
        /\ chans' = DropReceiver(chans, workers[a].worker)
        /\ workers' = [workers EXCEPT ![a].worker = callers[c].rcv]
        /\ callers' = [callers EXCEPT ![c] = IdleCaller(callers[c].calls)]
        /\ UNCHANGED <<time, tickNo, agents, jobs, tick, pcs, spawnLog, fp, bvh, ray>>

NextConc ==
    \/ \E p \in StartPositions, v \in Velocities : AddAgent(p, v)
    \/ \E c \in Callers, a \in DOMAIN workers, p \in CallPositions : ConcCall(c, a, p)
    \/ \E c \in Callers : ConcPoll(c)
    \/ \E c \in Callers : ConcCache(c)
    \/ \E c \in Callers : ConcSpawn(c)
    \/ \E c \in Callers : ConcStore(c)
    \/ \E j \in DOMAIN jobs : JobSense(j)
    \/ \E j \in DOMAIN jobs : JobSend(j)
    \/ \E j \in DOMAIN jobs : JobExit(j)

SpecConc == Init /\ [][NextConc]_vars

\* ------------------------------------------------ OccupancyMap::from_pixels
\* World coordinates are f32 in the code; here they are whole numbers of
\* 1/Unit of a cell, so that cell corners (multiples of 1/2) and the ray
\* origins used below (multiples of 1/4) are exact.
Unit == 4

\* the grids from_pixels is called with have MaxCells cells at most; rays are
\* cast on those of MaxW x MaxH at most
MaxCells == 6
MaxW == 3
MaxH == 2

\* the pixel counts tried for a w x h grid: the right one and its neighbours
PixelCounts(w, h) == {n \in {w * h - 1, w * h, w * h + 1} : n >= 0}

\* Direction (bvh.rs)
Directions == {"North", "East", "South", "West"}

\* boundary_direction with the west edge running from top to bottom (a mutant
\* of BoundaryDirection)
BoundaryDirectionWestDown(size, node, direction) ==
    LET tlx == Unit * node[1] - (Unit * size[1]) \div 2
        tly == (Unit * size[2]) \div 2 - Unit * node[2]
    IN  CASE direction = "North" -> [a |-> <<tlx, tly>>, b |-> <<tlx + Unit, tly>>]
          [] direction = "East"  -> [a |-> <<tlx + Unit, tly>>, b |-> <<tlx + Unit, tly - Unit>>]
          [] direction = "South" -> [a |-> <<tlx + Unit, tly - Unit>>, b |-> <<tlx, tly - Unit>>]
          [] direction = "West"  -> [a |-> <<tlx, tly>>, b |-> <<tlx, tly - Unit>>]

\* boundary_direction: the side of cell node that faces direction, as a segment
\* running clockwise round the cell
BoundaryDirection(size, node, direction) ==
    LET tlx == Unit * node[1] - (Unit * size[1]) \div 2
        tly == (Unit * size[2]) \div 2 - Unit * node[2]
    IN  CASE direction = "North" -> [a |-> <<tlx, tly>>, b |-> <<tlx + Unit, tly>>]
          [] direction = "East"  -> [a |-> <<tlx + Unit, tly>>, b |-> <<tlx + Unit, tly - Unit>>]
          [] direction = "South" -> [a |-> <<tlx + Unit, tly - Unit>>, b |-> <<tlx, tly - Unit>>]
          [] direction = "West"  -> [a |-> <<tlx, tly - Unit>>, b |-> <<tlx, tly>>]

\* from_pixels lines 101-110: the locals before the scan.  checks tells whether
\* the build traps usize overflow (a debug build) or wraps (a release build).
FromPixelsCall(size, pixels, checks) ==
    [pc |-> "scan", size |-> size, pixels |-> pixels, checks |-> checks,
     pixels_len |-> Cardinality(DOMAIN pixels),
     objects |-> [k \in DOMAIN pixels |-> None],
     visited |-> {}, boundaries |-> <<>>, tmp_nodes |-> <<>>,
     object_count |-> 0, object |-> 0, i |-> 0, result |-> "running"]

\* the call has ended in a panic
Panicked(call) == [call EXCEPT !.pc = "done", !.result = "Panic"]

\* lines 112-115: the pixels from index i on that the scan does not skip
Seeds(call) ==
    {k \in call.i .. (call.pixels_len - 1) : call.pixels[k] /\ call.objects[k] = None}

\* the smallest member of a non-empty set of numbers
Least(S) == CHOOSE k \in S : \A m \in S : k <= m

\* try_add that pushes an occupied neighbour without labelling it (a mutant of
\* TryAdd)
TryAddUnlabelled(st, node) ==
    LET k == node[1] + node[2] * st.size[1]
    IN  IF node \in st.visited THEN [st EXCEPT !.free = FALSE]
        ELSE IF k >= st.pixels_len THEN [st EXCEPT !.panic = TRUE]
        ELSE IF ~st.pixels[k] THEN [st EXCEPT !.free = TRUE]
        ELSE [st EXCEPT !.tmp_nodes = Append(@, node), !.free = FALSE]

\* lines 129-143, the closure try_add, on the locals st: st.free is what it
\* returns; pixels[k] panics when k is out of the array
TryAdd(st, node) ==
    LET k == node[1] + node[2] * st.size[1]
    IN  IF node \in st.visited THEN [st EXCEPT !.free = FALSE]
        ELSE IF k >= st.pixels_len THEN [st EXCEPT !.panic = TRUE]
        ELSE IF ~st.pixels[k] THEN [st EXCEPT !.free = TRUE]
        ELSE [st EXCEPT !.objects[k] = Some(st.object),
                        !.tmp_nodes = Append(@, node),
                        !.free = FALSE]

\* Side that also takes the map border for a boundary (a mutant of Side)
SideWithBorder(st, inside, neighbour, node, direction) ==
    IF st.panic THEN st
    ELSE IF ~inside
         THEN [st EXCEPT !.boundaries =
                           Append(@, BoundaryDirection(st.size, node, direction))]
         ELSE LET t == TryAdd(st, neighbour)
              IN  IF ~t.panic /\ t.free
                  THEN [t EXCEPT !.boundaries =
                                   Append(@, BoundaryDirection(st.size, node, direction))]
                  ELSE t

\* one of the four tests of lines 145-159: when the neighbour is in the grid
\* (inside) and try_add says it is free, the side towards it is a boundary
Side(st, inside, neighbour, node, direction) ==
    IF st.panic \/ ~inside THEN st
    ELSE LET t == TryAdd(st, neighbour)
         IN  IF ~t.panic /\ t.free
             THEN [t EXCEPT !.boundaries =
                              Append(@, BoundaryDirection(st.size, node, direction))]
             ELSE t

\* lines 112-124: the scan skips free and labelled pixels; at the next seed it
\* takes a new ObjectTag and pushes the seed's cell.  i % width panics when
\* width is 0.  With no seed left the scan ends and BVH::new is called (line 163).
FromPixelsScan ==
    /\ fp.pc = "scan"
    /\ IF Seeds(fp) = {}
       THEN /\ fp' = [fp EXCEPT !.pc = "bvh", !.i = fp.pixels_len]
            /\ bvh' = [pc |-> "boxes", segments |-> fp.boundaries]
       ELSE LET i == Least(Seeds(fp))
                width == fp.size[1]
            IN  /\ fp' = IF width = 0
                         THEN Panicked(fp)
                         ELSE [fp EXCEPT
                                 !.object = fp.object_count,
                                 !.object_count = @ + 1,
                                 !.objects[i] = Some(fp.object_count),
                                 !.tmp_nodes = <<<<i % width, i \div width>>>>,
                                 !.i = i,
                                 !.pc = "dfs"]
                /\ UNCHANGED bvh
    /\ UNCHANGED <<time, tickNo, agents, workers, jobs, chans, tick, pcs, callers,
                   spawnLog, ray>>

\* lines 126-160: one turn of the while loop: pop a cell, mark it visited, test
\* its four neighbours.  height - 1 overflows when height is 0: a build with
\* overflow checks panics, one without wraps to usize::MAX.
FromPixelsVisit ==
    /\ fp.pc = "dfs"
    /\ LET width == fp.size[1]
           height == fp.size[2]
           node == fp.tmp_nodes[Len(fp.tmp_nodes)]
           s0 == [fp EXCEPT !.tmp_nodes = SubSeq(@, 1, Len(@) - 1),
                            !.visited = @ \cup {node}] @@
                 [panic |-> FALSE, free |-> FALSE]
           s1 == Side(s0, node[1] > 0, <<node[1] - 1, node[2]>>, node, "West")
           s2 == Side(s1, node[1] < width - 1, <<node[1] + 1, node[2]>>, node, "East")
           s3 == Side(s2, node[2] > 0, <<node[1], node[2] - 1>>, node, "North")
           s4 == IF height = 0 /\ fp.checks
                 THEN [s3 EXCEPT !.panic = TRUE]
                 ELSE Side(s3, height = 0 \/ node[2] < height - 1,
                           <<node[1], node[2] + 1>>, node, "South")
           after == [f \in DOMAIN fp |-> s4[f]]
       IN  fp' = IF s4.panic THEN Panicked(after)
                 ELSE IF s4.tmp_nodes = <<>>
                      THEN [after EXCEPT !.pc = "scan", !.i = @ + 1]
                      ELSE after
    /\ UNCHANGED <<time, tickNo, agents, workers, jobs, chans, tick, pcs, callers,
                   spawnLog, bvh, ray>>

\* lines 165-175: with the BVH built, the map is returned when the pixel count
\* is the grid's, the error otherwise
FromPixelsReturn ==
    /\ fp.pc = "bvh"
    /\ bvh.pc = "done"
    /\ fp' = [fp EXCEPT !.pc = "done",
                        !.result = IF fp.size[1] * fp.size[2] = fp.pixels_len
                                   THEN "Ok" ELSE "Err"]
    /\ UNCHANGED <<time, tickNo, agents, workers, jobs, chans, tick, pcs, callers,
                   spawnLog, bvh, ray>>

\* ------------------------------------------------------------- BVH::new
\* A Box2D is [min, max, nan]: nan[k] says that min[k] and max[k] are NaN (then
\* the numbers written there mean nothing).  Inside BVH::new the boxes are
\* normalised to the bounding box of all segments; a normalised coordinate
\* (x - bounding.min) / (bounding.max - bounding.min) is kept as its numerator
\* x - bounding.min, its denominator being the extent of the bounding box on
\* that axis; with an extent of 0 the division is 0 / 0, a NaN.  Other float
\* rounding is left out: the arithmetic is exact.
MAX_PRIMS_IN_NODE == 16

Min(a, b) == IF a <= b THEN a ELSE b
Max(a, b) == IF a >= b THEN a ELSE b

\* the Box2D of line 87 and of unwrap_or: min = max = Vec2::ZERO
ZeroBox == [min |-> <<0, 0>>, max |-> <<0, 0>>, nan |-> <<FALSE, FALSE>>]

\* LineSegment::get_box
GetBox(segment) ==
    [min |-> <<Min(segment.a[1], segment.b[1]), Min(segment.a[2], segment.b[2])>>,
     max |-> <<Max(segment.a[1], segment.b[1]), Max(segment.a[2], segment.b[2])>>,
     nan |-> <<FALSE, FALSE>>]

\* Box2D::encase; the minimum and maximum of a NaN and a number are taken to be
\* the number, as f32::min and f32::max give them
Encase(p, q) ==
    [min |-> [k \in {1, 2} |-> IF p.nan[k] THEN q.min[k]
                               ELSE IF q.nan[k] THEN p.min[k]
                               ELSE Min(p.min[k], q.min[k])],
     max |-> [k \in {1, 2} |-> IF p.nan[k] THEN q.max[k]
                               ELSE IF q.nan[k] THEN p.max[k]
                               ELSE Max(p.max[k], q.max[k])],
     nan |-> [k \in {1, 2} |-> p.nan[k] /\ q.nan[k]]]

\* iter().reduce(encase) over the boxes of positions start+1 .. end of a list
\* (the range start..end of the code), None for an empty range
RECURSIVE Reduce(_, _, _)
Reduce(rects, start, end) ==
    IF start >= end THEN None
    ELSE IF start + 1 = end THEN Some(rects[end])
    ELSE Some(Encase(Reduce(rects, start, end - 1)[1], rects[end]))

\* lines 103-104: a box normalised to the bounding box
Normalised(bx, bounding) ==
    [min |-> [k \in {1, 2} |-> bx.min[k] - bounding.min[k]],
     max |-> [k \in {1, 2} |-> bx.max[k] - bounding.min[k]],
     nan |-> [k \in {1, 2} |-> bounding.max[k] = bounding.min[k]]]

\* lines 314-315: a normalised box taken back to world coordinates
Remapped(bx, bounding) ==
    [min |-> [k \in {1, 2} |-> bx.min[k] + bounding.min[k]],
     max |-> [k \in {1, 2} |-> bx.max[k] + bounding.min[k]],
     nan |-> bx.nan]

\* embed_even_bits on both arguments, or-ed as in morton_encode, for two numbers
\* below 2^12
RECURSIVE Interleave(_, _)
Interleave(x, y) ==
    IF x = 0 /\ y = 0 THEN 0
    ELSE (x % 2) + 2 * (y % 2) + 4 * Interleave(x \div 2, y \div 2)

\* morton_encode: the 64-bit code as <<code >> 24, code & 0xFFFFFF>>
MortonEncode(x, y) ==
    <<Interleave(x \div 4096, y \div 4096), Interleave(x % 4096, y % 4096)>>

\* lines 106-107: (centroid * 2^20) as u32 on axis k; a NaN casts to 0
CentroidCell(bx, bounding, k) ==
    IF bx.nan[k] THEN 0
    ELSE ((bx.min[k] + bx.max[k]) * 2^19) \div (bounding.max[k] - bounding.min[k])

MortonLess(m, n) == m[1] < n[1] \/ (m[1] = n[1] /\ m[2] < n[2])

\* par_sort_unstable_by_key on the code: equal codes come out in an order the
\* sort does not promise; down picks one of two such orders
RECURSIVE SortedByMorton(_, _)
SortedByMorton(S, down) ==
    IF S = {} THEN <<>>
    ELSE LET first == CHOOSE b \in S : \A c \in S :
                          \/ MortonLess(b.morton, c.morton)
                          \/ /\ b.morton = c.morton
                             /\ IF down THEN b.i >= c.i ELSE b.i <= c.i
         IN  <<first>> \o SortedByMorton(S \ {first}, down)

\* lines 111-124: the ranges <<start, end>> of boxes with one code above the
\* low 24 bits
RECURSIVE Treelets(_, _, _)
Treelets(boxes, start, end) ==
    IF end > Len(boxes) THEN <<>>
    ELSE IF end = Len(boxes) \/ boxes[start + 1].morton[1] # boxes[end + 1].morton[1]
         THEN <<<<start, end>>>> \o Treelets(boxes, end, end + 1)
         ELSE Treelets(boxes, start, end + 1)

\* bit index (0 .. 24) of a code
Bit(morton, index) ==
    IF index >= 24 THEN (morton[1] \div 2^(index - 24)) % 2
    ELSE (morton[2] \div 2^index) % 2

\* partition_point over the range start..end: the number of leading boxes whose
\* bit is that of the first
PartitionPoint(boxes, start, end, index) ==
    LET same == {k \in start .. (end - 1) :
                    Bit(boxes[k + 1].morton, index) = Bit(boxes[start + 1].morton, index)}
    IN  Cardinality({k \in same : \A m \in start .. k : m \in same})

\* the rects of a list of boxes
Rects(boxes) == [k \in 1 .. Len(boxes) |-> boxes[k].bx]

\* rect.unwrap_or(zero box)
UnwrapOrZero(rect) == IF rect = None THEN ZeroBox ELSE rect[1]

\* emit_lbvh that leaves the last box of a leaf out (a mutant of EmitLbvh)
EmitLbvhDropsLast(index, start, end, boxes, st) ==
    [id |-> st.number,
     node |-> [children |-> None,
               rect |-> UnwrapOrZero(Reduce(Rects(boxes), start, end)),
               elements |-> Some([k \in 1 .. (end - start - 1) |-> boxes[start + k].i])],
     number |-> st.number + 1,
     box_map |-> st.box_map]

\* emit_lbvh on the range start..end; st is [number, box_map], the counter and
\* the node store, and the result carries them on together with (id, node)
RECURSIVE EmitLbvh(_, _, _, _, _)
EmitLbvh(index, start, end, boxes, st) ==
    IF index < 0 \/ end - start <= MAX_PRIMS_IN_NODE
    THEN [id |-> st.number,
          node |-> [children |-> None,
                    rect |-> UnwrapOrZero(Reduce(Rects(boxes), start, end)),
                    elements |-> Some([k \in 1 .. (end - start) |-> boxes[start + k].i])],
          number |-> st.number + 1,
          box_map |-> st.box_map]
    ELSE IF Bit(boxes[start + 1].morton, index) = Bit(boxes[end].morton, index)
    THEN EmitLbvh(index - 1, start, end, boxes, st)
    ELSE LET split == start + PartitionPoint(boxes, start, end, index)
             one == EmitLbvh(index - 1, start, split, boxes, st)
             two == EmitLbvh(index - 1, split, end, boxes,
                             [number |-> one.number, box_map |-> one.box_map])
         IN  [id |-> two.number,
              node |-> [children |-> Some(<<one.id, two.id>>),
                        rect |-> Encase(one.node.rect, two.node.rect),
                        elements |-> None],
              number |-> two.number + 1,
              box_map |-> (one.id :> one.node) @@ (two.id :> two.node) @@ two.box_map]

\* the region make_split_tree starts from, (0, 0) - (1, 1), in eighths: three
\* halvings on each axis keep its corners whole
UnitRegion == [min |-> <<0, 0>>, max |-> <<8, 8>>]

\* Box2D::split_horizontal (k = 1) and Box2D::split_vertical (k = 2)
SplitRegion(region, k) ==
    LET mid == (region.min[k] + region.max[k]) \div 2
    IN  <<[region EXCEPT !.max[k] = mid], [region EXCEPT !.min[k] = mid]>>

\* first.contains(node.centroid()) for a normalised rect; a comparison with a
\* NaN is false
ContainsCentroid(region, rect, bounding) ==
    \A k \in {1, 2} :
        LET extent == bounding.max[k] - bounding.min[k]
            twice == rect.min[k] + rect.max[k]
        IN  /\ ~rect.nan[k]
            /\ IF extent = 0
               THEN region.min[k] <= 0 /\ 0 <= region.max[k]
               ELSE /\ region.min[k] * 2 * extent <= 8 * twice
                    /\ 8 * twice <= region.max[k] * 2 * extent

\* sort_by_key(!first.contains(centroid)), a stable sort, on the range
\* start..end of the treelet roots
SortedByRegion(roots, start, end, region, bounding) ==
    LET inside == SelectSeq(SubSeq(roots, start + 1, end),
                            LAMBDA r : ContainsCentroid(region, r.bx, bounding))
        outside == SelectSeq(SubSeq(roots, start + 1, end),
                             LAMBDA r : ~ContainsCentroid(region, r.bx, bounding))
    IN  [roots |-> SubSeq(roots, 1, start) \o inside \o outside
                       \o SubSeq(roots, end + 1, Len(roots)),
         split |-> start + Len(inside)]

\* make_split_tree on the range start..end of the treelet roots; st is
\* [number, box_map, roots]
RECURSIVE MakeSplitTree(_, _, _, _, _, _, _)
MakeSplitTree(depth, horizontal, start, end, st, region, bounding) ==
    IF depth < 0 \/ end - start <= 2
    THEN [id |-> st.number,
          node |-> [children |-> IF end > start
                                 THEN Some([k \in 1 .. (end - start) |-> st.roots[start + k].id])
                                 ELSE None,
                    rect |-> UnwrapOrZero(Reduce(Rects(st.roots), start, end)),
                    elements |-> None],
          number |-> st.number + 1,
          box_map |-> st.box_map,
          roots |-> st.roots]
    ELSE LET halves == SplitRegion(region, IF horizontal THEN 1 ELSE 2)
             sorted == SortedByRegion(st.roots, start, end, halves[1], bounding)
             one == MakeSplitTree(depth - 1, ~horizontal, start, sorted.split,
                                  [st EXCEPT !.roots = sorted.roots], halves[1], bounding)
             two == MakeSplitTree(depth - 1, ~horizontal, sorted.split, end,
                                  [number |-> one.number, box_map |-> one.box_map,
                                   roots |-> one.roots], halves[2], bounding)
         IN  [id |-> two.number,
              node |-> [children |-> Some(<<one.id, two.id>>),
                        rect |-> Encase(one.node.rect, two.node.rect),
                        elements |-> None],
              number |-> two.number + 1,
              box_map |-> (one.id :> one.node) @@ (two.id :> two.node) @@ two.box_map,
              roots |-> two.roots]

\* the scheduler and the from_pixels call stand still
BVHOnly == UNCHANGED <<time, tickNo, agents, workers, jobs, chans, tick, pcs, callers,
                       spawnLog, fp, ray>>

\* lines 66-100: the segments' boxes and their bounding box; no segment, a BVH
\* of one node without children and without elements
BVHBoxes ==
    /\ bvh.pc = "boxes"
    /\ LET n == Len(bvh.segments)
           boxes == [k \in 1 .. n |->
                       [i |-> k - 1, bx |-> GetBox(bvh.segments[k]), morton |-> <<0, 0>>]]
           bounding == Reduce(Rects(boxes), 0, n)
       IN  bvh' = IF bounding = None
                  THEN [pc |-> "done", segments |-> bvh.segments,
                        box_map |-> (0 :> [children |-> None, rect |-> ZeroBox,
                                           elements |-> None]),
                        root |-> 0]
                  ELSE [pc |-> "morton", segments |-> bvh.segments,
                        boxes |-> boxes, bounding |-> bounding[1]]
    /\ BVHOnly

\* lines 102-109: the boxes are normalised, coded and sorted by code
BVHMorton ==
    /\ bvh.pc = "morton"
    /\ \E down \in BOOLEAN :
         LET coded == {[i |-> b.i,
                        bx |-> Normalised(b.bx, bvh.bounding),
                        morton |-> MortonEncode(
                            CentroidCell(Normalised(b.bx, bvh.bounding), bvh.bounding, 1),
                            CentroidCell(Normalised(b.bx, bvh.bounding), bvh.bounding, 2))] :
                       b \in {bvh.boxes[k] : k \in 1 .. Len(bvh.boxes)}}
         IN  bvh' = [bvh EXCEPT !.pc = "treelets", !.boxes = SortedByMorton(coded, down)]
    /\ BVHOnly

\* lines 111-126 and 186-187: the treelets, an empty store, the counter at 0
BVHTreelets ==
    /\ bvh.pc = "treelets"
    /\ LET treelets == Treelets(bvh.boxes, 0, 1)
       IN  bvh' = [pc |-> "emit", segments |-> bvh.segments, boxes |-> bvh.boxes,
                   bounding |-> bvh.bounding, treelets |-> treelets,
                   roots |-> [t \in 1 .. Len(treelets) |-> None],
                   node_number |-> 0, box_map |-> <<>>]
    /\ BVHOnly

\* lines 188-199: par_iter runs emit_lbvh on the treelets in an order that
\* differs from run to run (here: from the front or from the back of those
\* left); the counter hands every node its own id
BVHEmit ==
    /\ bvh.pc = "emit"
    /\ \E t \in DOMAIN bvh.roots :
         /\ bvh.roots[t] = None
         /\ \/ \A u \in DOMAIN bvh.roots : u < t => bvh.roots[u] # None
            \/ \A u \in DOMAIN bvh.roots : u > t => bvh.roots[u] # None
         /\ LET got == EmitLbvh(24, bvh.treelets[t][1], bvh.treelets[t][2], bvh.boxes,
                                [number |-> bvh.node_number, box_map |-> bvh.box_map])
            IN  bvh' = [bvh EXCEPT
                          !.roots[t] = Some([id |-> got.id, bx |-> got.node.rect]),
                          !.node_number = got.number,
                          !.box_map = (got.id :> got.node) @@ got.box_map]
    /\ BVHOnly

\* lines 298-310: the split tree over the treelet roots
BVHSplit ==
    /\ bvh.pc = "emit"
    /\ \A t \in DOMAIN bvh.roots : bvh.roots[t] # None
    /\ LET roots == [t \in DOMAIN bvh.roots |-> bvh.roots[t][1]]
           got == MakeSplitTree(5, TRUE, 0, Len(roots),
                                [number |-> bvh.node_number, box_map |-> bvh.box_map,
                                 roots |-> roots],
                                UnitRegion, bvh.bounding)
       IN  bvh' = [pc |-> "remap", segments |-> bvh.segments, bounding |-> bvh.bounding,
                   box_map |-> (got.id :> got.node) @@ got.box_map,
                   root |-> got.id]
    /\ BVHOnly

\* lines 312-318: every rect goes back to world coordinates
BVHRemap ==
    /\ bvh.pc = "remap"
    /\ bvh' = [pc |-> "done", segments |-> bvh.segments,
               box_map |-> [id \in DOMAIN bvh.box_map |->
                              [bvh.box_map[id] EXCEPT !.rect = Remapped(@, bvh.bounding)]],
               root |-> bvh.root]
    /\ BVHOnly

\* ---- the treelet builds of lines 188-199 as threads of the pool, one
\* fetch_add at a time
\* emit_lbvh on treelet t with a counter and a store of its own: the nodes of
\* the treelet numbered 0, 1, ... in the order the thread takes their ids
LocalTree(t) ==
    EmitLbvh(24, bvh.treelets[t][1], bvh.treelets[t][2], bvh.boxes,
             [number |-> 0, box_map |-> <<>>])

LocalNodes(tree) == (tree.id :> tree.node) @@ tree.box_map

\* DashMap::insert of a node under each of the ids of a set: an entry that is
\* there already is overwritten
Inserted(box_map, nodes) ==
    [id \in DOMAIN box_map \cup DOMAIN nodes |->
        IF id \in DOMAIN nodes THEN nodes[id] ELSE box_map[id]]

\* the number of insert calls made for each id, after one more for each id of ids
Counted(inserts, ids) ==
    [id \in DOMAIN inserts \cup ids |->
        (IF id \in DOMAIN inserts THEN inserts[id] ELSE 0) + (IF id \in ids THEN 1 ELSE 0)]

\* lines 188-190: the pool takes up the treelets
BVHSpawn ==
    /\ bvh.pc = "emit"
    /\ bvh.node_number = 0
    /\ bvh' = [pc |-> "par", segments |-> bvh.segments, boxes |-> bvh.boxes,
               bounding |-> bvh.bounding, treelets |-> bvh.treelets,
               alloc |-> [t \in DOMAIN bvh.treelets |-> <<>>],
               node_number |-> 0, box_map |-> <<>>, inserts |-> <<>>]
    /\ BVHOnly

\* the thread of treelet t takes the id of its next node, given the value it
\* got from the counter and the value the counter is left with.  The node's
\* children were inserted just before (lines 172-173), the root of the treelet
\* is inserted just after (line 195).
AllocStep(t, id, next) ==
    LET tree == LocalTree(t)
        nodes == LocalNodes(tree)
        k == Len(bvh.alloc[t])
        ids == Append(bvh.alloc[t], id)
        global(node) == [node EXCEPT !.children =
                           IF @ = None THEN None
                           ELSE Some([c \in DOMAIN @[1] |-> ids[@[1][c] + 1]])]
        kids == IF nodes[k].children = None THEN {}
                ELSE {nodes[k].children[1][c] : c \in DOMAIN nodes[k].children[1]}
        local == kids \cup (IF k = tree.id THEN {k} ELSE {})
        put == {ids[c + 1] : c \in local}
    IN  /\ k < tree.number
        /\ bvh' = [bvh EXCEPT
                     !.alloc[t] = ids,
                     !.node_number = next,
                     !.inserts = Counted(@, put),
                     !.box_map = Inserted(@, [g \in put |->
                                     global(nodes[CHOOSE c \in local : ids[c + 1] = g])])]

\* a counter read and written in two steps, so that a thread can get the value
\* another thread got (a mutant of BVHAlloc)
BVHAllocTorn ==
    /\ bvh.pc = "par"
    /\ \E t \in DOMAIN bvh.alloc :
          AllocStep(t, IF bvh.node_number > 0 THEN bvh.node_number - 1 ELSE 0,
                    bvh.node_number + 1)
    /\ BVHOnly

\* lines 144 and 176: node_number.fetch_add(1, SeqCst) in the thread of a treelet
BVHAlloc ==
    /\ bvh.pc = "par"
    /\ \E t \in DOMAIN bvh.alloc : AllocStep(t, bvh.node_number, bvh.node_number + 1)
    /\ BVHOnly

\* line 199: collect() returns when every treelet is built
BVHJoin ==
    /\ bvh.pc = "par"
    /\ \A t \in DOMAIN bvh.alloc : Len(bvh.alloc[t]) = LocalTree(t).number
    /\ bvh' = [pc |-> "emit", segments |-> bvh.segments, boxes |-> bvh.boxes,
               bounding |-> bvh.bounding, treelets |-> bvh.treelets,
               roots |-> [t \in DOMAIN bvh.alloc |->
                            Some([id |-> bvh.alloc[t][LocalTree(t).id + 1],
                                  bx |-> LocalTree(t).node.rect])],
               node_number |-> bvh.node_number, box_map |-> bvh.box_map]
    /\ BVHOnly

\* the steps of BVH::new
BVHSteps ==
    \/ BVHBoxes
    \/ BVHMorton
    \/ BVHTreelets
    \/ BVHEmit
    \/ BVHSplit
    \/ BVHRemap

\* ------------------------------------------------------------- rays
\* An f32 of the ray code is <<n, d>>: the number n / d for d > 0, plus or
\* minus infinity for <<1, 0>> and <<-1, 0>>, a NaN for <<0, 0>>.  The
\* operators below are the IEEE ones on these values; rounding is left out.
\* A direction component of 0 is +0.0.
NaN == <<0, 0>>
Num(n) == <<n, 1>>
IsNaN(v) == v = NaN
IsInf(v) == v[2] = 0 /\ v[1] # 0
Sign(n) == IF n > 0 THEN 1 ELSE IF n < 0 THEN -1 ELSE 0

RECURSIVE GCD(_, _)
GCD(m, n) == IF n = 0 THEN m ELSE GCD(n, m % n)

\* a finite fraction in lowest terms
Lowest(v) ==
    LET g == GCD(IF v[1] < 0 THEN -v[1] ELSE v[1], v[2])
    IN  IF v[2] = 0 \/ g = 0 THEN v ELSE <<v[1] \div g, v[2] \div g>>

XNeg(v) == <<-v[1], v[2]>>
XAbs(v) == <<IF v[1] < 0 THEN -v[1] ELSE v[1], v[2]>>

\* v * w: infinity times zero is a NaN
XMul(v, w) ==
    IF IsNaN(v) \/ IsNaN(w) THEN NaN
    ELSE IF v[2] * w[2] = 0 THEN <<Sign(v[1] * w[1]), 0>>
    ELSE Lowest(<<v[1] * w[1], v[2] * w[2]>>)

\* v + w: infinity minus infinity is a NaN
XAdd(v, w) ==
    IF IsNaN(v) \/ IsNaN(w) THEN NaN
    ELSE IF IsInf(v) /\ IsInf(w) THEN (IF v = w THEN v ELSE NaN)
    ELSE IF IsInf(v) THEN v
    ELSE IF IsInf(w) THEN w
    ELSE Lowest(<<v[1] * w[2] + w[1] * v[2], v[2] * w[2]>>)

XSub(v, w) == XAdd(v, XNeg(w))

\* 1.0 / n for a whole number n
XRecip(n) == IF n = 0 THEN <<1, 0>> ELSE IF n > 0 THEN <<1, n>> ELSE <<-1, -n>>

\* v < w: false when either is a NaN
XLess(v, w) ==
    /\ ~IsNaN(v)
    /\ ~IsNaN(w)
    /\ IF IsInf(v) /\ IsInf(w) THEN v[1] < w[1] ELSE v[1] * w[2] < w[1] * v[2]

\* f32::max and f32::min: for a NaN, the other operand
XMax(v, w) == IF IsNaN(v) THEN w ELSE IF IsNaN(w) THEN v ELSE IF XLess(v, w) THEN w ELSE v
XMin(v, w) == IF IsNaN(v) THEN w ELSE IF IsNaN(w) THEN v ELSE IF XLess(w, v) THEN w ELSE v

\* v < f32::EPSILON and v >= f32::EPSILON: the positive numbers met here are
\* fractions of small whole numbers, all above f32::EPSILON = 2^-23
LtEpsilon(v) == ~IsNaN(v) /\ v[1] <= 0
GeEpsilon(v) == ~IsNaN(v) /\ v[1] > 0

\* coordinate k of a corner of a Box2D as an f32
Coord(corner, nan, k) == IF nan[k] THEN NaN ELSE Num(corner[k])

\* lines 127-135 of intersect_ray_box: t_n and t_f
Slabs(pos, dir, rect) ==
    LET center(k) == XMul(XAdd(Coord(rect.min, rect.nan, k), Coord(rect.max, rect.nan, k)),
                          <<1, 2>>)
        half_extent(k) == XMul(XSub(Coord(rect.max, rect.nan, k),
                                    Coord(rect.min, rect.nan, k)), <<1, 2>>)
        shifted_pos(k) == XSub(Num(pos[k]), center(k))
        m(k) == XRecip(dir[k])
        n(k) == XMul(m(k), shifted_pos(k))
        kk(k) == XMul(XAbs(m(k)), half_extent(k))
    IN  [t_n |-> XMax(XSub(XNeg(n(1)), kk(1)), XSub(XNeg(n(2)), kk(2))),
         t_f |-> XMin(XAdd(XNeg(n(1)), kk(1)), XAdd(XNeg(n(2)), kk(2)))]

\* intersect_ray_box that answers the entry time whenever the box is hit (a
\* mutant of IntersectRayBox)
IntersectRayBoxEntry(pos, dir, rect) ==
    LET t == Slabs(pos, dir, rect)
    IN  IF XLess(t.t_f, t.t_n) \/ LtEpsilon(t.t_f) THEN None ELSE Some(t.t_n)

\* intersect_ray_box
IntersectRayBox(pos, dir, rect) ==
    LET t == Slabs(pos, dir, rect)
    IN  IF XLess(t.t_f, t.t_n) \/ LtEpsilon(t.t_f) THEN None
        ELSE IF LtEpsilon(t.t_n) THEN Some(t.t_f)
        ELSE IF GeEpsilon(t.t_n) THEN Some(t.t_n)
        ELSE None

\* intersect_ray_line_segment: the ray parameter t of the crossing, when the
\* segment parameter u is in [0, 1] and t is positive
IntersectRayLineSegment(pos, dir, line_seg) ==
    LET denom == dir[1] * (line_seg.b[2] - line_seg.a[2])
                 - dir[2] * (line_seg.b[1] - line_seg.a[1])
        u_num == dir[1] * (pos[2] - line_seg.a[2]) - dir[2] * (pos[1] - line_seg.a[1])
        t_num == (pos[1] - line_seg.a[1]) * (line_seg.a[2] - line_seg.b[2])
                 - (pos[2] - line_seg.a[2]) * (line_seg.a[1] - line_seg.b[1])
    IN  IF denom = 0 THEN None
        ELSE IF ~(0 <= u_num * Sign(denom) /\ u_num * Sign(denom) <= denom * Sign(denom))
        THEN None
        ELSE IF t_num * Sign(denom) > 0
        THEN Some(Lowest(<<t_num * Sign(denom), denom * Sign(denom)>>))
        ELSE None

\* min.min(small), min being None for f32::INFINITY
MinHit(min, small) ==
    IF small = None THEN min
    ELSE IF min = None THEN small
    ELSE Some(XMin(min[1], small[1]))

\* lines 198-206: the smallest hit among the listed boundaries
RECURSIVE MinOverElements(_, _, _, _, _)
MinOverElements(boundaries, elements, pos, dir, min) ==
    IF elements = <<>> THEN min
    ELSE MinOverElements(boundaries, Tail(elements), pos, dir,
                         MinHit(min, IntersectRayLineSegment(
                                         pos, dir, boundaries[Head(elements) + 1])))

\* lines 186-208: the queue of node ids is worked off from the front
RECURSIVE Traverse(_, _, _, _, _, _)
Traverse(box_map, boundaries, queue, pos, dir, min) ==
    IF queue = <<>> THEN min
    ELSE IF Head(queue) \notin DOMAIN box_map
    THEN Traverse(box_map, boundaries, Tail(queue), pos, dir, min)
    ELSE LET node == box_map[Head(queue)]
         IN  IF IntersectRayBox(pos, dir, node.rect) = None
             THEN Traverse(box_map, boundaries, Tail(queue), pos, dir, min)
             ELSE Traverse(box_map, boundaries,
                           Tail(queue) \o (IF node.children = None THEN <<>>
                                           ELSE node.children[1]),
                           pos, dir,
                           IF node.elements = None THEN min
                           ELSE MinOverElements(boundaries, node.elements[1], pos, dir, min))

\* OccupancyMap::cast_rays on the map [boundaries, bvh]
CastRays(map, pos, dir) ==
    Traverse(map.bvh.box_map, map.boundaries, <<map.bvh.root>>, pos, dir, None)

\* OccupancyMap::get_box: the square of a cell, in 1/Unit
MapGetBox(size, loc) ==
    LET top_left == <<loc[1] * Unit - (Unit * size[1]) \div 2,
                      (Unit * size[2]) \div 2 - loc[2] * Unit>>
        bottom_right == <<top_left[1] + Unit, top_left[2] - Unit>>
    IN  [min |-> <<Min(top_left[1], bottom_right[1]), Min(top_left[2], bottom_right[2])>>,
         max |-> <<Max(top_left[1], bottom_right[1]), Max(top_left[2], bottom_right[2])>>]

\* the OccupancyMap that from_pixels returned
TheMap == [size |-> fp.size, pixels |-> fp.pixels, objects |-> fp.objects,
           boundaries |-> fp.boundaries, bvh |-> bvh]

\* OccupancyMap::translate on a map of any size, the position in 1/Unit
TranslateOn(map, loc) ==
    <<(loc[1] + (Unit * map.size[1]) \div 2) \div Unit,
      ((Unit * map.size[2]) \div 2 - loc[2]) \div Unit>>

\* OccupancyMap::is_occupied on a map of any size
IsOccupiedOn(map, cell) ==
    IF cell[1] < map.size[1] /\ cell[2] < map.size[2]
    THEN map.pixels[cell[1] + cell[2] * map.size[1]]
    ELSE TRUE

\* Vec2::rotate: the direction turned by the heading
Rotate(heading, dir) ==
    <<heading[1] * dir[1] - heading[2] * dir[2], heading[2] * dir[1] + heading[1] * dir[2]>>

\* lines 227-237 of Lidar2D::sense: for every direction that hits, the point
\* world_dir * i + position, its coordinates as fractions
RECURSIVE HitPoints(_, _, _)
HitPoints(map, directions, agent_state) ==
    IF directions = <<>> THEN <<>>
    ELSE LET world_dir == Rotate(agent_state.heading, Head(directions))
             i == CastRays(map, agent_state.position, world_dir)
             rest == HitPoints(map, Tail(directions), agent_state)
         IN  IF i = None THEN rest
             ELSE <<[k \in {1, 2} |->
                       XAdd(XMul(Num(world_dir[k]), i[1]), Num(agent_state.position[k]))]>>
                  \o rest

\* Lidar2D::sense that looks at the sign of the cell only (a mutant of SenseOnMap)
SenseOnMapSignOnly(directions, agent_state, scene) ==
    LET loc == TranslateOn(scene.occupancy_map, agent_state.position)
    IN  IF loc[1] < 0 \/ loc[2] < 0
        THEN None
        ELSE Some([time |-> scene.time,
                   state |-> HitPoints(scene.occupancy_map, directions, agent_state)])

\* Lidar2D::sense with its rays: no reading in an occupied or negative cell,
\* else the hit points stamped scene.time
SenseOnMap(directions, agent_state, scene) ==
    LET loc == TranslateOn(scene.occupancy_map, agent_state.position)
    IN  IF loc[1] < 0 \/ loc[2] < 0 \/ IsOccupiedOn(scene.occupancy_map, loc)
        THEN None
        ELSE Some([time |-> scene.time,
                   state |-> HitPoints(scene.occupancy_map, directions, agent_state)])

\* the scheduler, the from_pixels call and the BVH stand still
RayOnly == UNCHANGED <<time, tickNo, agents, workers, jobs, chans, tick, pcs, callers,
                       spawnLog, fp, bvh>>

\* a caller casts a ray on the map from_pixels returned; cast_rays takes &self
\* and leaves the map as it was, so one query stands for each of them
CastRay(pos, dir) ==
    /\ ray.pc = "idle"
    /\ fp.pc = "done"
    /\ fp.result = "Ok"
    /\ ray' = [pc |-> "cast", pos |-> pos, dir |-> dir, hit |-> CastRays(TheMap, pos, dir)]
    /\ RayOnly

\* a lidar with the given directions senses on the map from_pixels returned
LidarSense(directions, position, heading) ==
    /\ ray.pc = "idle"
    /\ fp.pc = "done"
    /\ fp.result = "Ok"
    /\ ray' = [pc |-> "sense", directions |-> directions,
               position |-> position, heading |-> heading,
               reading |-> SenseOnMap(directions,
                                      [position |-> position, heading |-> heading],
                                      [time |-> time, occupancy_map |-> TheMap])]
    /\ RayOnly

\* Box2D::intersects: the corner-wise larger min, the corner-wise smaller max,
\* and min.cmpge(max).any()
Intersects(p, q) ==
    LET min == <<Max(p.min[1], q.min[1]), Max(p.min[2], q.min[2])>>
        max == <<Min(p.max[1], q.max[1]), Min(p.max[2], q.max[2])>>
    IN  min[1] >= max[1] \/ min[2] >= max[2]

\* a caller tests two boxes for overlap
BoxIntersects ==
    /\ ray.pc = "pair"
    /\ ray' = [ray EXCEPT !.pc = "tested", !.result = Intersects(ray.self, ray.query)]
    /\ RayOnly

\* a caller tests a ray against a box
RayBox ==
    /\ ray.pc = "box"
    /\ ray' = [ray EXCEPT !.pc = "boxed", !.hit = IntersectRayBox(ray.pos, ray.dir, ray.rect)]
    /\ RayOnly

\* ------------------------------------------------- the calls that are checked
\* every pixel array of the counts tried, for every grid of up to MaxCells
\* cells, and the all-free grid of 10 x 10
GridSizes == {size \in (0 .. MaxCells) \X (0 .. MaxCells) : size[1] * size[2] <= MaxCells}

FromPixelsInputs ==
    UNION {{FromPixelsCall(size, pixels, checks) :
               pixels \in UNION {[0 .. (n - 1) -> BOOLEAN] :
                                    n \in PixelCounts(size[1], size[2])},
               checks \in IF size[2] = 0 THEN BOOLEAN ELSE {TRUE}} :
           size \in GridSizes}
    \cup {FromPixelsCall(<<10, 10>>, [k \in 0 .. 99 |-> FALSE], TRUE)}

InitMap ==
    /\ SceneInit
    /\ fp \in FromPixelsInputs
    /\ bvh = NoCall
    /\ ray = NoCall

NextMap ==
    \/ FromPixelsScan
    \/ FromPixelsVisit
    \/ FromPixelsReturn
    \/ BVHSteps

SpecMap == InitMap /\ [][NextMap]_vars

\* the segment lists BVH::new is called with: every list of up to MaxSegments
\* segments of a pool, and lists with more than MAX_PRIMS_IN_NODE segments in
\* one treelet
MaxSegments == 3
MaxCluster == 17

SegmentPool ==
    {[a |-> <<0, 0>>, b |-> <<4, 0>>],
     [a |-> <<4, 0>>, b |-> <<4, -4>>],
     [a |-> <<0, -8>>, b |-> <<0, -4>>],
     [a |-> <<-4, 4>>, b |-> <<8, 12>>]}

\* a segment far from the cluster, which makes the cluster one treelet
FarSegment == [a |-> <<1020, 1024>>, b |-> <<1024, 1024>>]

\* n short segments with centroids of their own, all in the treelet at the
\* bounding box's min corner
Cluster(n) ==
    [k \in 1 .. n |->
        IF k <= 16
        THEN [a |-> <<(k - 1) % 4, (k - 1) \div 4>>, b |-> <<((k - 1) % 4) + 1, (k - 1) \div 4>>]
        ELSE [a |-> <<(k - 17) % 4, (k - 17) \div 4>>,
              b |-> <<(k - 17) % 4, ((k - 17) \div 4) + 1>>]]
    \o <<FarSegment>>

\* n copies of one segment
Copies(n) == [k \in 1 .. n |-> [a |-> <<0, 0>>, b |-> <<1, 0>>]] \o <<FarSegment>>

SegmentLists ==
    UNION {[1 .. n -> SegmentPool] : n \in 0 .. MaxSegments}
    \cup {Cluster(n) : n \in 16 .. MaxCluster}
    \cup {Copies(n) : n \in 16 .. MaxCluster}

InitBVH ==
    /\ SceneInit
    /\ fp = NoCall
    /\ bvh \in {[pc |-> "boxes", segments |-> segments] : segments \in SegmentLists}
    /\ ray = NoCall

SpecBVH == InitBVH /\ [][BVHSteps]_vars

\* BVH::new with the treelet builds interleaved
NextBVHPar ==
    \/ BVHBoxes
    \/ BVHMorton
    \/ BVHTreelets
    \/ BVHSpawn
    \/ BVHAlloc
    \/ BVHJoin
    \/ BVHSplit
    \/ BVHRemap

SpecBVHPar == InitBVH /\ [][NextBVHPar]_vars

\* the rays cast on the maps: origins in and around the small grids and at the
\* centre of the 10 x 10 grid, directions along the axes and askew
RayOrigins == {<<x, y>> : x \in {0, 2}, y \in {-1, 0, 3}}
RayDirections == {<<1, 0>>, <<-1, 0>>, <<0, 1>>, <<0, -1>>, <<1, 1>>, <<-1, -2>>}

\* a lidar of four directions along the axes; the headings +X and +Y
AxisDirections == <<<<1, 0>>, <<0, 1>>, <<-1, 0>>, <<0, -1>>>>
Headings == {<<1, 0>>, <<0, 1>>}

\* maps are built from arrays of the right length and then queried
InitRays ==
    /\ SceneInit
    /\ fp \in {call \in FromPixelsInputs :
                  /\ call.pixels_len = call.size[1] * call.size[2]
                  /\ \/ call.size[1] <= MaxW /\ call.size[2] <= MaxH
                     \/ call.size = <<10, 10>>}
    /\ bvh = NoCall
    /\ ray = NoCall

NextRays ==
    \/ FromPixelsScan
    \/ FromPixelsVisit
    \/ FromPixelsReturn
    \/ BVHSteps
    \/ \E pos \in RayOrigins, dir \in RayDirections : CastRay(pos, dir)
    \/ \E pos \in RayOrigins, heading \in Headings : LidarSense(AxisDirections, pos, heading)

SpecRays == InitRays /\ [][NextRays]_vars

\* the rays and boxes intersect_ray_box is called with: corners on the whole
\* numbers up to MaxCoord, extents of zero included
MaxCoord == 2
BoxCoords == (0 - MaxCoord) .. MaxCoord
BoxOrigins == {<<0, 0>>, <<1, 0>>, <<0, -1>>}
BoxDirections == {<<1, 0>>, <<-1, 0>>, <<0, 1>>, <<0, -1>>, <<1, 1>>}

InitRayBox ==
    /\ SceneInit
    /\ fp = NoCall
    /\ bvh = NoCall
    /\ ray \in {[pc |-> "box", pos |-> pos, dir |-> dir, hit |-> None,
                 rect |-> [min |-> <<x1, y1>>, max |-> <<x2, y2>>, nan |-> <<FALSE, FALSE>>]] :
                pos \in BoxOrigins, dir \in BoxDirections,
                x1 \in BoxCoords, x2 \in BoxCoords, y1 \in BoxCoords, y2 \in BoxCoords}
    /\ ray.rect.min[1] <= ray.rect.max[1]
    /\ ray.rect.min[2] <= ray.rect.max[2]

SpecRayBox == InitRayBox /\ [][RayBox]_vars

\* the pairs of boxes Box2D::intersects is called with: well-formed boxes, the
\* first with corners from 0, the second from all of BoxCoords
WellFormed(coords) ==
    {[min |-> <<x1, y1>>, max |-> <<x2, y2>>] :
        x1 \in coords, x2 \in coords, y1 \in coords, y2 \in coords}

InitBoxes ==
    /\ SceneInit
    /\ fp = NoCall
    /\ bvh = NoCall
    /\ ray \in {[pc |-> "pair", self |-> p, query |-> q, result |-> FALSE] :
                p \in WellFormed(0 .. MaxCoord), q \in WellFormed(BoxCoords)}
    /\ \A k \in {1, 2} : ray.self.min[k] <= ray.self.max[k]
                         /\ ray.query.min[k] <= ray.query.max[k]

SpecBoxes == InitBoxes /\ [][BoxIntersects]_vars

\* ------------------------------------------------------------- claims
\* the jobs of agent a whose sense computation has not finished
Running(a) == {j \in DOMAIN jobs : j[1] = a /\ jobs[j].stage = "running"}

\* the jobs of agent a
JobsOf(a) == {j \in DOMAIN jobs : j[1] = a}

\* this step is the tick's update_state call for agent a
PollStep(a) == a \in DOMAIN pcs /\ pcs[a] = "poll" /\ pcs'[a] = "done"

\* C1: at every moment at most one sensing job per agent has been started and
\* has not yet finished its sense computation.
C1_OneJobInFlight ==
    \A a \in DOMAIN workers : Cardinality(Running(a)) <= 1

\* C1's case: an agent polled in a later tick, its second job in flight
C1_Witness ==
    \E a \in DOMAIN workers :
        /\ tick.active /\ pcs[a] = "done"
        /\ Cardinality(JobsOf(a)) >= 2
        /\ Cardinality(Running(a)) = 1

\* C2: a poll that finds the job's channel empty with the job alive changes
\* nothing: no job is spawned, the stored receiver and the cached reading stay.
C2_EmptyPollIsNoOp ==
    [][\A a \in DOMAIN workers :
          (PollStep(a) /\ Rcvd(a) = "Empty") =>
              /\ workers' = workers
              /\ jobs' = jobs
              /\ chans' = chans]_vars

\* C2's case: the agent was polled in this tick while the job of an earlier tick
\* is still computing, and a reading of a still earlier job is cached
C2_Witness ==
    \E a \in DOMAIN workers :
        /\ tick.active /\ pcs[a] = "done"
        /\ workers[a].worker # None
        /\ jobs[workers[a].worker[1]].stage = "running"
        /\ spawnLog[workers[a].worker[1]].tickNo < tickNo
        /\ workers[a].last_measurement # None

\* C3: a poll that finds a delivered reading caches exactly that reading and
\* starts exactly one new job, whose receiver replaces the old one.
C3_DeliveredIsCachedThenRespawn ==
    [][\A a \in DOMAIN workers :
          (PollStep(a) /\ Rcvd(a) = "Ok") =>
              /\ workers'[a].last_measurement =
                     Some(Head(chans[workers[a].worker[1]].queue))
              /\ DOMAIN jobs' = DOMAIN jobs \cup {NextJob(a)}
              /\ NextJob(a) \notin DOMAIN jobs
              /\ jobs'[NextJob(a)].stage = "running"
              /\ workers'[a].worker = Some(NextJob(a))
              /\ chans'[NextJob(a)] = NewChan
              /\ chans'[workers[a].worker[1]].receivers = 0]_vars

\* C3's case: the reading of the previous job is cached and the job that
\* replaced it was spawned in this tick
C3_Witness ==
    \E a \in DOMAIN workers :
        /\ tick.active /\ pcs[a] = "done"
        /\ workers[a].worker # None
        /\ spawnLog[workers[a].worker[1]].tickNo = tickNo
        /\ workers[a].worker[1][2] >= 2
        /\ jobs[<<a, workers[a].worker[1][2] - 1>>].measurement = workers[a].last_measurement
        /\ workers[a].last_measurement # None

\* C4: add_agent leaves the new agent's worker without a job and without a
\* cached reading, and the first update_state for it starts exactly one job
\* and leaves the cached reading absent.
C4_FreshWorkerStartsOneJob ==
    [][/\ \A id \in (DOMAIN agents') \ (DOMAIN agents) :
              workers'[id] = [worker |-> None, last_measurement |-> None]
       /\ \A a \in DOMAIN workers :
              (PollStep(a) /\ workers[a].worker = None) =>
                  /\ JobsOf(a) = {}
                  /\ DOMAIN jobs' = DOMAIN jobs \cup {<<a, 1>>}
                  /\ jobs'[<<a, 1>>].stage = "running"
                  /\ workers'[a].worker = Some(<<a, 1>>)
                  /\ workers'[a].last_measurement = None]_vars

\* C4's case: the first poll of an agent has started its first job
C4_Witness ==
    \E a \in DOMAIN workers :
        /\ tick.active /\ pcs[a] = "done"
        /\ workers[a] = [worker |-> Some(<<a, 1>>), last_measurement |-> None]
        /\ jobs[<<a, 1>>].stage = "running"

\* C5: a job whose sense call yields no reading sends nothing, and the poll that
\* finds it ended leaves the cached reading as it was when the job was spawned.
C5_NoReadingKeepsCache ==
    [][\A a \in DOMAIN workers :
          (/\ PollStep(a)
           /\ workers[a].worker # None
           /\ jobs[workers[a].worker[1]].stage # "running"
           /\ jobs[workers[a].worker[1]].measurement = None) =>
              /\ chans[workers[a].worker[1]].queue = <<>>
              /\ workers'[a].last_measurement = workers[a].last_measurement
              /\ workers'[a].last_measurement = spawnLog[workers[a].worker[1]].last]_vars

\* C5's case: the previous job ended without a reading, it was polled and
\* replaced, and the reading cached before it is still cached
C5_Witness ==
    \E a \in DOMAIN workers :
        /\ workers[a].worker # None
        /\ workers[a].worker[1][2] >= 2
        /\ jobs[<<a, workers[a].worker[1][2] - 1>>].stage = "exited"
        /\ jobs[<<a, workers[a].worker[1][2] - 1>>].measurement = None
        /\ workers[a].last_measurement # None

\* C6: two concurrent update_state calls for one agent never both start a job
\* while the other's job is unfinished (as two calls run one after the other
\* never do).
C6_ConcurrentCallsLinearizable ==
    \A a \in DOMAIN workers :
        \A j, k \in JobsOf(a) :
            (j # k /\ jobs[j].stage = "running") => jobs[k].stage # "running"

\* C7: a reading returned by Scene2DLoop::query carries a time stamp that is
\* not later than the scene time.
C7_ReadingNotFromFuture ==
    \A a \in DOMAIN agents :
        (Query(a) # None /\ Query(a)[1].lidar # None) =>
            Query(a)[1].lidar[1].time <= time

\* C7's case: query returns a reading older than the scene time
C7_Witness ==
    \E a \in DOMAIN agents :
        /\ Query(a) # None /\ Query(a)[1].lidar # None
        /\ Query(a)[1].lidar[1].time < time

C9_ReadingFromSpawnSnapshot ==
    \A j \in DOMAIN jobs :
        /\ jobs[j].stage # "running" =>
               jobs[j].measurement = Sense(spawnLog[j].state, [time |-> spawnLog[j].time])
        /\ chans[j].queue # <<>> =>
               /\ chans[j].queue = jobs[j].measurement
               /\ chans[j].queue[1].time = spawnLog[j].time

\* C9's case: a delivered reading waits in its channel after ticks have changed
\* the agent's position and the scene time
C9_Witness ==
    \E j \in DOMAIN jobs :
        /\ chans[j].queue # <<>>
        /\ time # spawnLog[j].time
        /\ agents[j[1]].state.position # spawnLog[j].state.position

\* a job was spawned by the tick in progress
SpawnedThisTick(j) == tick.active /\ spawnLog[j].tickNo = tickNo

MapBuilt == fp.pc = "done" /\ fp.result = "Ok"

\* the cells of a grid, and the index of a cell in the pixel array
Cells(size) == {<<x, y>> : x \in 0 .. (size[1] - 1), y \in 0 .. (size[2] - 1)}
Index(cell, size) == cell[1] + cell[2] * size[1]

\* the occupied cells of the grid from_pixels was called with
OccupiedCells == {c \in Cells(fp.size) : fp.pixels[Index(c, fp.size)]}

\* the 4-neighbours of a cell, in the grid or not
Neighbours(c) ==
    {<<c[1] - 1, c[2]>>, <<c[1] + 1, c[2]>>, <<c[1], c[2] - 1>>, <<c[1], c[2] + 1>>}

\* the cells joined to a cell of S by a 4-connected path of occupied cells
RECURSIVE Region(_)
Region(S) ==
    LET more == S \cup {d \in OccupiedCells : \E c \in S : d \in Neighbours(c)}
    IN  IF more = S THEN S ELSE Region(more)

\* C11 as claimed: a call whose pixel count differs from w*h ends by returning
\* the PixelSizeMismatch error, never in a fault, and a map is returned only
\* when the count is w*h.
C11_MismatchReturnsError ==
    fp.pc = "done" =>
        /\ fp.pixels_len # fp.size[1] * fp.size[2] => fp.result = "Err"
        /\ fp.result = "Ok" => fp.pixels_len = fp.size[1] * fp.size[2]

\* C12 as claimed: the number of boundary segments of a map is the number of
\* pairs (occupied cell, side) whose neighbour on that side is free or outside
\* the grid.
C12_OneSegmentPerOpenSide ==
    MapBuilt =>
        Len(fp.boundaries) =
            Cardinality({p \in OccupiedCells \X (Cells(fp.size) \cup
                                                 UNION {Neighbours(c) : c \in OccupiedCells}) :
                            p[2] \in Neighbours(p[1]) /\ p[2] \notin OccupiedCells})

\* C13: in a map every occupied cell has a tag, two occupied cells have the
\* same tag exactly when a 4-connected path of occupied cells joins them, and
\* there are as many tags as maximal 4-connected occupied regions.
C13_OneTagPerRegion ==
    MapBuilt =>
        /\ \A c \in OccupiedCells : fp.objects[Index(c, fp.size)] # None
        /\ \A c, d \in OccupiedCells :
              (fp.objects[Index(c, fp.size)] = fp.objects[Index(d, fp.size)])
                  <=> d \in Region({c})
        /\ Cardinality({fp.objects[Index(c, fp.size)] : c \in OccupiedCells}) =
               Cardinality({Region({c}) : c \in OccupiedCells})

\* C13's case: a map with two regions, one of them bent round a corner
C13_Witness ==
    /\ MapBuilt
    /\ fp.object_count = 2
    /\ \E c \in OccupiedCells :
          /\ Cardinality(Region({c})) >= 3
          /\ \E d, e \in Region({c}) : d[1] # e[1] /\ d[2] # e[2]

\* C14: a grid whose cells are all free, and a grid whose cells are all
\* occupied, gives a map with no boundary segment.
C14_UniformGridHasNoBoundary ==
    (/\ MapBuilt
     /\ \/ OccupiedCells = {}
        \/ OccupiedCells = Cells(fp.size)) => fp.boundaries = <<>>

\* C14's case: a map of a grid of several cells, all of them occupied
C14_Witness ==
    /\ MapBuilt
    /\ Cardinality(Cells(fp.size)) >= 4
    /\ OccupiedCells = Cells(fp.size)
    /\ fp.visited = Cells(fp.size)

\* ------------------------------------------------- claims on BVH::new
\* BVH::new has returned
BVHBuilt == bvh.pc = "done"

\* the places (node, position) of the element lists that hold index i
PlacesOf(i) ==
    {p \in UNION {{<<id, k>> : k \in 1 .. Len(bvh.box_map[id].elements[1])} :
                     id \in {n \in DOMAIN bvh.box_map : bvh.box_map[n].elements # None}} :
        bvh.box_map[p[1]].elements[1][p[2]] = i}

\* C15: the BVH holds every index 0 .. N-1 in the element list of exactly one
\* node, once, and holds no other index.
C15_EveryIndexInOneNode ==
    BVHBuilt =>
        /\ \A i \in 0 .. (Len(bvh.segments) - 1) : Cardinality(PlacesOf(i)) = 1
        /\ \A id \in DOMAIN bvh.box_map :
              bvh.box_map[id].elements # None =>
                  \A k \in 1 .. Len(bvh.box_map[id].elements[1]) :
                      bvh.box_map[id].elements[1][k] \in 0 .. (Len(bvh.segments) - 1)

\* C15's case: more than MAX_PRIMS_IN_NODE segments of differing codes fell
\* into one treelet, which emit_lbvh split into two leaves, beside another
\* treelet
C15_Witness ==
    /\ BVHBuilt
    /\ Len(bvh.segments) > MAX_PRIMS_IN_NODE
    /\ \E id \in DOMAIN bvh.box_map :
          /\ bvh.box_map[id].children # None
          /\ id # bvh.root
          /\ \A c \in {bvh.box_map[id].children[1][k] :
                         k \in 1 .. Len(bvh.box_map[id].children[1])} :
                 /\ bvh.box_map[c].elements # None
                 /\ Len(bvh.box_map[c].elements[1]) >= 2

\* Box2D::contains_box: a comparison with a NaN is false
Encases(p, q) ==
    \A k \in {1, 2} :
        /\ ~p.nan[k]
        /\ ~q.nan[k]
        /\ p.min[k] <= q.min[k]
        /\ q.max[k] <= p.max[k]

\* C16 as claimed: in a BVH of a non-empty input the box of a node encases the
\* boxes of its children and of its segments, and the root box encases the
\* bounding box of all segments.
C16_BoxesEncase ==
    (BVHBuilt /\ bvh.segments # <<>>) =>
        /\ \A id \in DOMAIN bvh.box_map :
              /\ bvh.box_map[id].children # None =>
                    \A k \in 1 .. Len(bvh.box_map[id].children[1]) :
                        Encases(bvh.box_map[id].rect,
                                bvh.box_map[bvh.box_map[id].children[1][k]].rect)
              /\ bvh.box_map[id].elements # None =>
                    \A k \in 1 .. Len(bvh.box_map[id].elements[1]) :
                        Encases(bvh.box_map[id].rect,
                                GetBox(bvh.segments[bvh.box_map[id].elements[1][k] + 1]))
        /\ Encases(bvh.box_map[bvh.root].rect,
                   Reduce([k \in 1 .. Len(bvh.segments) |-> GetBox(bvh.segments[k])],
                          0, Len(bvh.segments))[1])

\* ------------------------------------------------- claims on rays
\* the smallest positive distance over all boundary segments of the map
RECURSIVE BruteForce(_, _, _, _)
BruteForce(boundaries, pos, dir, min) ==
    IF boundaries = <<>> THEN min
    ELSE BruteForce(Tail(boundaries), pos, dir,
                    MinHit(min, IntersectRayLineSegment(pos, dir, Head(boundaries))))

\* C17 as claimed: cast_rays returns what a scan of all boundary segments with
\* intersect_ray_line_segment returns: the smallest distance, or None.
C17_CastRaysIsBruteForce ==
    (MapBuilt /\ ray.pc = "cast") =>
        ray.hit = BruteForce(fp.boundaries, ray.pos, ray.dir, None)

\* C18 as claimed: on the free 10 x 10 grid an agent at the centre heading +X
\* with four directions along the axes gets a reading of four hits, each 5
\* cells away.
C18_FreeGridHitsBorder ==
    (/\ MapBuilt
     /\ fp.size = <<10, 10>>
     /\ OccupiedCells = {}
     /\ ray.pc = "sense"
     /\ ray.directions = AxisDirections
     /\ ray.position = <<0, 0>>
     /\ ray.heading = <<1, 0>>) =>
        /\ ray.reading # None
        /\ Len(ray.reading[1].state) = Len(AxisDirections)
        /\ \A k \in 1 .. Len(ray.reading[1].state) :
              ray.reading[1].state[k] =
                  <<Num(5 * Unit * AxisDirections[k][1]), Num(5 * Unit * AxisDirections[k][2])>>

\* the ray of a box query runs along axis k (1 or 2), forwards (1) or back (-1)
Along(k, way) == ray.dir[k] = way /\ ray.dir[3 - k] = 0

\* C19: for a ray along an axis and a box of positive extent whose slab on the
\* other axis holds the ray, intersect_ray_box gives the distance to the entry
\* when the box lies ahead of the origin, the distance to the exit when the
\* origin is in the box, and no hit when the box lies behind the origin.
C19_AxisRayAgainstBox ==
    ray.pc = "boxed" =>
        \A k \in {1, 2}, way \in {1, -1} :
            LET near == IF way = 1 THEN ray.rect.min[k] ELSE ray.rect.max[k]
                far == IF way = 1 THEN ray.rect.max[k] ELSE ray.rect.min[k]
                o == 3 - k
            IN  (/\ Along(k, way)
                 /\ ray.rect.min[1] < ray.rect.max[1]
                 /\ ray.rect.min[2] < ray.rect.max[2]
                 /\ ray.rect.min[o] <= ray.pos[o]
                 /\ ray.pos[o] <= ray.rect.max[o]) =>
                    /\ (near - ray.pos[k]) * way > 0 =>
                           ray.hit = Some(Num((near - ray.pos[k]) * way))
                    /\ ((near - ray.pos[k]) * way <= 0 /\ (far - ray.pos[k]) * way > 0) =>
                           ray.hit = Some(Num((far - ray.pos[k]) * way))
                    /\ (far - ray.pos[k]) * way < 0 => ray.hit = None

\* C19's case: the origin is inside a box and the exit distance is returned,
\* which is not the distance to the near side
C19_Witness ==
    /\ ray.pc = "boxed"
    /\ Along(2, 1)
    /\ ray.rect.min[1] < ray.pos[1] /\ ray.pos[1] < ray.rect.max[1]
    /\ ray.rect.min[2] < ray.pos[2] /\ ray.pos[2] < ray.rect.max[2]
    /\ ray.hit = Some(Num(ray.rect.max[2] - ray.pos[2]))
    /\ ray.rect.max[2] - ray.pos[2] # ray.pos[2] - ray.rect.min[2]

\* ------------------------------------------------- claims on add_agent
\* the ids of the agents of the scene
Ids == DOMAIN agents

\* C20: over any add_agent and update calls on one scene the ids returned are
\* 0, 1, 2, ... in the order of the calls, so pairwise distinct; an id once
\* returned stays with its agent and is not returned again; and every agent
\* has a worker registered under its id.
C20_IdsCountUp ==
    /\ [](Ids = 0 .. (Cardinality(Ids) - 1) /\ Ids \subseteq DOMAIN workers)
    /\ [][/\ Ids \subseteq DOMAIN agents'
          /\ DOMAIN agents' # Ids =>
                /\ Cardinality(Ids) \notin Ids
                /\ DOMAIN agents' = Ids \cup {Cardinality(Ids)}
                /\ Cardinality(Ids) \in DOMAIN workers']_vars

\* C20's case: an agent was added, a tick moved it, and two more agents were
\* added afterwards
C20_Witness ==
    /\ Cardinality(Ids) >= 3
    /\ tickNo >= 1
    /\ agents[0].last_state # None
    /\ agents[1].last_state = None
    /\ agents[2].last_state = None
    /\ ~tick.active

\* ------------------------------------------------- claims on Lidar2D::sense
\* the cells of the grid whose square holds a position (in 1/Unit): cell (x, y)
\* spans x - w/2 <= px < x + 1 - w/2 and h/2 - y - 1 < py <= h/2 - y
CellsHolding(position) ==
    {c \in Cells(fp.size) :
        /\ Unit * (2 * c[1] - fp.size[1]) <= 2 * position[1]
        /\ 2 * position[1] < Unit * (2 * c[1] + 2 - fp.size[1])
        /\ Unit * (fp.size[2] - 2 * c[2] - 2) < 2 * position[2]
        /\ 2 * position[2] <= Unit * (fp.size[2] - 2 * c[2])}

\* C21: Lidar2D::sense returns a reading exactly when the position lies in a
\* free cell of the grid, also when no ray hits; it returns none when the cell
\* is occupied or the position is outside the grid.
C21_ReadingIffFreeCell ==
    (MapBuilt /\ ray.pc = "sense") =>
        (ray.reading # None <=>
            \E c \in CellsHolding(ray.position) : ~fp.pixels[Index(c, fp.size)])

\* C21's case: a reading without a hit for a position in a free cell
C21_Witness ==
    /\ MapBuilt
    /\ ray.pc = "sense"
    /\ \E c \in CellsHolding(ray.position) : ~fp.pixels[Index(c, fp.size)]
    /\ ray.reading # None
    /\ ray.reading[1].state = <<>>

\* ------------------------------------------------- claims on the poller
\* C22 as claimed: a poll that finds the job's channel closed without a value
\* starts no job and leaves the stored receiver and the cached reading as
\* they were, as a poll that finds no value yet does.
C22_ClosedPollIsNoOp ==
    [][\A a \in DOMAIN workers :
          (PollStep(a) /\ Rcvd(a) = "Disconnected") =>
              /\ workers' = workers
              /\ jobs' = jobs]_vars

\* the reading of job j was sent and has been taken from its channel
ReadingTaken(j) ==
    /\ jobs[j].stage \in {"sent", "exited"}
    /\ jobs[j].measurement # None
    /\ chans[j].queue = <<>>

\* job j ended without sending
EndedSilent(j) == jobs[j].stage = "exited" /\ jobs[j].measurement = None

\* C23: with sequential polls no reading is lost: the receiver of a job is
\* dropped only after the job's reading was taken from it or the job ended
\* without sending; a reading that was sent waits on the receiver the worker
\* holds; every send reaches its channel; and the next poll of the agent makes
\* the waiting reading the cached one.
C23_NoReadingLost ==
    /\ [](\A j \in DOMAIN jobs :
             /\ chans[j].receivers = 0 => (ReadingTaken(j) \/ EndedSilent(j))
             /\ chans[j].queue # <<>> => workers[j[1]].worker = Some(j))
    /\ [][/\ \A j \in DOMAIN jobs :
                (jobs[j].stage = "sensed" /\ jobs'[j].stage = "sent") =>
                    chans'[j].queue = jobs[j].measurement
          /\ \A a \in DOMAIN workers :
                (/\ PollStep(a)
                 /\ workers[a].worker # None
                 /\ chans[workers[a].worker[1]].queue # <<>>) =>
                    /\ workers'[a].last_measurement = jobs[workers[a].worker[1]].measurement
                    /\ chans'[workers[a].worker[1]].queue = <<>>]_vars

\* C23's case: the reading of an agent's second job was sent, taken by a later
\* poll and is the cached one, the job's receiver replaced by a third job's
C23_Witness ==
    \E a \in DOMAIN workers :
        /\ <<a, 3>> \in DOMAIN jobs
        /\ jobs[<<a, 2>>].measurement # None
        /\ workers[a].last_measurement = jobs[<<a, 2>>].measurement
        /\ chans[<<a, 2>>].receivers = 0
        /\ workers[a].worker = Some(<<a, 3>>)

\* ------------------------------------------------- claims on the boundaries
\* C24 as claimed: the boundary list of from_pixels holds no segment twice.
\* (The segments of two different pairs of an occupied cell and a side differ,
\* so a segment held twice is a pair emitted twice.)
C24_NoSegmentTwice ==
    MapBuilt =>
        \A i, j \in DOMAIN fp.boundaries :
            i # j => fp.boundaries[i] # fp.boundaries[j]

\* the edge of a box on a side, running clockwise around the box: the north
\* edge left to right, the east edge top to bottom, the south edge right to
\* left, the west edge bottom to top
ClockwiseEdge(bx, direction) ==
    CASE direction = "North" -> [a |-> <<bx.min[1], bx.max[2]>>, b |-> <<bx.max[1], bx.max[2]>>]
      [] direction = "East"  -> [a |-> <<bx.max[1], bx.max[2]>>, b |-> <<bx.max[1], bx.min[2]>>]
      [] direction = "South" -> [a |-> <<bx.max[1], bx.min[2]>>, b |-> <<bx.min[1], bx.min[2]>>]
      [] direction = "West"  -> [a |-> <<bx.min[1], bx.min[2]>>, b |-> <<bx.min[1], bx.max[2]>>]

\* the neighbour of a cell on a side (row 0 is the top row), and the side of
\* the neighbour that faces the cell
Towards(cell, direction) ==
    CASE direction = "North" -> <<cell[1], cell[2] - 1>>
      [] direction = "East"  -> <<cell[1] + 1, cell[2]>>
      [] direction = "South" -> <<cell[1], cell[2] + 1>>
      [] direction = "West"  -> <<cell[1] - 1, cell[2]>>

Opposite(direction) ==
    CASE direction = "North" -> "South"
      [] direction = "East"  -> "West"
      [] direction = "South" -> "North"
      [] direction = "West"  -> "East"

\* C25: every segment from_pixels emits while it visits an occupied cell (x, y)
\* is, for a side whose neighbour is a free pixel, the edge of get_box((x, y))
\* on that side, of length 1, running clockwise around the cell; the square's
\* top-left corner is (x - w/2, h/2 - y); and the same edge, reversed, is the
\* edge of the neighbour's square on its opposite side.
C25_SegmentIsClockwiseEdge ==
    [][fp.pc = "dfs" =>
          LET node == fp.tmp_nodes[Len(fp.tmp_nodes)]
              bx == MapGetBox(fp.size, node)
          IN  /\ 2 * bx.min[1] = Unit * (2 * node[1] - fp.size[1])
              /\ 2 * bx.max[2] = Unit * (fp.size[2] - 2 * node[2])
              /\ bx.max[1] - bx.min[1] = Unit
              /\ bx.max[2] - bx.min[2] = Unit
              /\ \A k \in (Len(fp.boundaries) + 1) .. Len(fp'.boundaries) :
                    \E d \in Directions :
                        LET seg == fp'.boundaries[k]
                            shared == ClockwiseEdge(MapGetBox(fp.size, Towards(node, d)),
                                                    Opposite(d))
                        IN  /\ seg = ClockwiseEdge(bx, d)
                            /\ seg.a = shared.b /\ seg.b = shared.a
                            /\ Index(Towards(node, d), fp.size) \in DOMAIN fp.pixels
                            /\ ~fp.pixels[Index(Towards(node, d), fp.size)]]_vars

\* C25's case: a map with a west edge running upwards and a south edge
\* running leftwards among its boundaries
C25_Witness ==
    /\ MapBuilt
    /\ \E i, j \in DOMAIN fp.boundaries :
          /\ fp.boundaries[i].a[1] = fp.boundaries[i].b[1]
          /\ fp.boundaries[i].b[2] = fp.boundaries[i].a[2] + Unit
          /\ fp.boundaries[j].a[2] = fp.boundaries[j].b[2]
          /\ fp.boundaries[j].b[1] = fp.boundaries[j].a[1] - Unit

\* ------------------------------------------------- claims on the BVH's nodes
\* C26 as claimed: every node of a BVH that BVH::new returned has exactly one
\* of children and elements populated.
C26_ChildrenOrElements ==
    BVHBuilt =>
        \A id \in DOMAIN bvh.box_map :
            (bvh.box_map[id].children # None) # (bvh.box_map[id].elements # None)

\* C27 as claimed: the element list of every leaf of a BVH that BVH::new
\* returned holds at most MAX_PRIMS_IN_NODE indices.
C27_LeafHoldsAtMost16 ==
    BVHBuilt =>
        \A id \in DOMAIN bvh.box_map :
            bvh.box_map[id].elements # None =>
                Len(bvh.box_map[id].elements[1]) <= MAX_PRIMS_IN_NODE

\* the ids the threads of the treelets have taken so far, with their takers
TakenIds == UNION {{<<t, k>> : k \in DOMAIN bvh.alloc[t]} : t \in DOMAIN bvh.alloc}

\* the places (parent, position) where a node is listed as a child
ParentsOf(id) ==
    {p \in UNION {{<<n, k>> : k \in DOMAIN bvh.box_map[n].children[1]} :
                     n \in {m \in DOMAIN bvh.box_map : bvh.box_map[m].children # None}} :
        bvh.box_map[p[1]].children[1][p[2]] = id}

\* the nodes reached from a set of nodes
RECURSIVE Reached(_)
Reached(S) ==
    LET more == S \cup UNION {{bvh.box_map[n].children[1][k] :
                                  k \in DOMAIN bvh.box_map[n].children[1]} :
                              n \in {m \in S : m \in DOMAIN bvh.box_map
                                               /\ bvh.box_map[m].children # None}}
    IN  IF more = S THEN S ELSE Reached(more)

\* C28: under every interleaving of the treelet builds the ids taken from the
\* counter are pairwise distinct and insert is called once for an id; when the
\* builds are done every id taken is in the store; and the store BVH::new
\* returns is a tree: its ids are the counter's values, every node is reached
\* from root, root is nobody's child and every other node is the child of
\* exactly one node, once.
C28_DistinctIdsAndTree ==
    /\ bvh.pc = "par" =>
          /\ \A p, q \in TakenIds :
                p # q => bvh.alloc[p[1]][p[2]] # bvh.alloc[q[1]][q[2]]
          /\ \A id \in DOMAIN bvh.inserts : bvh.inserts[id] = 1
          /\ DOMAIN bvh.inserts = DOMAIN bvh.box_map
          /\ DOMAIN bvh.inserts \subseteq {bvh.alloc[p[1]][p[2]] : p \in TakenIds}
          /\ (\A t \in DOMAIN bvh.alloc : Len(bvh.alloc[t]) = LocalTree(t).number) =>
                DOMAIN bvh.inserts = 0 .. (bvh.node_number - 1)
    /\ BVHBuilt =>
          /\ DOMAIN bvh.box_map = 0 .. (Cardinality(DOMAIN bvh.box_map) - 1)
          /\ Reached({bvh.root}) = DOMAIN bvh.box_map
          /\ ParentsOf(bvh.root) = {}
          /\ \A id \in DOMAIN bvh.box_map \ {bvh.root} : Cardinality(ParentsOf(id)) = 1

\* C28's case: a treelet of several nodes took its ids with the id of another
\* treelet in between
C28_Witness ==
    /\ bvh.pc = "par"
    /\ \E t, u \in DOMAIN bvh.alloc :
          /\ Len(bvh.alloc[t]) >= 3
          /\ Len(bvh.alloc[u]) >= 1
          /\ bvh.alloc[t][1] < bvh.alloc[u][1]
          /\ bvh.alloc[u][1] < bvh.alloc[t][3]
          /\ bvh.inserts # <<>>

\* ------------------------------------------------- claims on Box2D
\* two boxes overlap: their intersection has positive extent on both axes
Overlap(p, q) ==
    \A k \in {1, 2} : Max(p.min[k], q.min[k]) < Min(p.max[k], q.max[k])

\* C29 as claimed: for well-formed boxes a.intersects(b) is true exactly when
\* the two boxes overlap.
C29_IntersectsIsOverlap ==
    ray.pc = "tested" => (ray.result <=> Overlap(ray.self, ray.query))

\* ------------------------------------------------- claims on progress
\* the ids the agents of a scene can have
AgentIds == 0 .. (MaxAgents - 1)

\* agent a is registered and a tick is still to come
TickToCome(a) == a \in DOMAIN workers /\ tickNo < MaxTicks

\* the time stamp of the reading cached for agent a, -1 when there is none
CachedTime(a) ==
    IF a \notin DOMAIN workers \/ workers[a].last_measurement = None THEN -1
    ELSE workers[a].last_measurement[1].time

\* the last job of agent a has delivered a reading or ended without one, or
\* no job was ever started for a: the next poll does not find Empty
Due(a) == a \in DOMAIN workers /\ Rcvd(a) # "Empty"

\* a reading of agent a's last job waits in the channel
Waiting(a) == a \in DOMAIN workers /\ Rcvd(a) = "Ok"

\* every reading a job of agent a has delivered is cached or was replaced by
\* one with a time stamp at least as new
Caught(a) ==
    \A j \in JobsOf(a) :
        (jobs[j].stage \in {"sent", "exited"} /\ jobs[j].measurement # None)
            => CachedTime(a) >= jobs[j].measurement[1].time

====
